---- MODULE Spec2Model ----
(***************************************************************************)
(* A model of the wallet service's ledger engine (walletService in the    *)
(* service package): CreateWallet, Deposit and Transfer running as        *)
(* concurrent callers against a transactional store with row locks        *)
(* (gorm + InnoDB) and a key-value cache (redis).                          *)
(*                                                                         *)
(* Money.  Wallet.Balance and Transaction.Amount are Go int64 counts of    *)
(* minor units.  An int64 is modelled exactly, on the values               *)
(*        v = hi * 2^57 + lo      with |lo| small,                         *)
(* as the record [hi, lo]; the int64 range is -64*2^57 .. 64*2^57 - 1 and  *)
(* Go's + and - wrap around modulo 2^64 = 128 * 2^57.                      *)
(***************************************************************************)
EXTENDS Integers, Sequences, FiniteSets, TLC

(* ------------------------------ bounds -------------------------------- *)

\* Calls started in one behaviour.
MaxCalls == 2

\* The concurrent callers (one logical flow per inbound request).
Procs == {"p1", "p2"}
NoProc == "none"

\* Wallet identifiers a caller may name; 1 and 2 exist initially, 3 is the
\* next auto-increment id (absent until CreateWallet inserts it).
WalletIDs == {1, 2, 3}

\* Existing accounts, and the account ids a caller may name (9: no account).
Users == {1, 2}
UserIDs == {1, 9}

(* ------------------------------ int64 --------------------------------- *)

I64(h, l) == [hi |-> h, lo |-> l]

Zero64 == I64(0, 0)

\* math.MaxInt64 = 2^63 - 1 and math.MinInt64 = -2^63.
MaxInt64 == I64(64, -1)
MinInt64 == I64(-64, 0)

\* The value of an arithmetic result reduced into the int64 range.
Wrap64(v) ==
    IF v.hi > 64 \/ (v.hi = 64 /\ v.lo >= 0) THEN I64(v.hi - 128, v.lo)
    ELSE IF v.hi < -64 \/ (v.hi = -64 /\ v.lo < 0) THEN I64(v.hi + 128, v.lo)
    ELSE v

\* Go's a + b, a - b and -a on int64.
Add64(a, b) == Wrap64(I64(a.hi + b.hi, a.lo + b.lo))
Sub64(a, b) == Wrap64(I64(a.hi - b.hi, a.lo - b.lo))
Neg64(a) == Wrap64(I64(-a.hi, -a.lo))

\* Go's a < b on int64.
Lt64(a, b) == a.hi < b.hi \/ (a.hi = b.hi /\ a.lo < b.lo)

\* The mathematical (unbounded) sum and negation, for stating properties.
MathAdd(a, b) == I64(a.hi + b.hi, a.lo + b.lo)
MathNeg(a) == I64(-a.hi, -a.lo)
Cents(n) == I64(0, n)

(* ------------------------- amounts at the boundary -------------------- *)

\* A float64 amount of dollars, as the caller passes it:
\*   Dec(n)  the float64 nearest to the decimal n/1000 (0 <= |n| <= 3000),
\*   Pow2(e) the float64 2^e.
Dec(n) == [tag |-> "dec", n |-> n]
Pow2(e) == [tag |-> "pow2", n |-> e]

\* The n in 0..3000 for which the float64 product (n/1000) * 100 falls just
\* below the integer n/10, so that int64() truncates to n/10 - 1
\* (0.29 * 100 = 28.999999999999996).
TruncLoss ==
    {290, 570, 580, 1130, 1140, 1150, 1160, 2010, 2030, 2050, 2070, 2260,
     2280, 2300, 2320, 2510, 2530, 2550}

Abs(n) == IF n < 0 THEN -n ELSE n

\* int64(dollars * 100): the values the conversion can produce.  The float64
\* product is truncated towards zero.  2^e * 100 = 25 * 2^(e+2) is exact; it
\* fits an int64 for e <= 56, and for a product outside the int64 range Go
\* leaves the result to the implementation (amd64 yields MinInt64, arm64
\* saturates to MaxInt64).
DollarsToMinorUnits(dollars) ==
    IF dollars.tag = "dec"
    THEN LET m == Abs(dollars.n)
             t == IF m \in TruncLoss THEN (m \div 10) - 1 ELSE m \div 10
         IN  {Cents(IF dollars.n < 0 THEN -t ELSE t)}
    ELSE IF dollars.n = 55 THEN {I64(25, 0)}
    ELSE IF dollars.n = 56 THEN {I64(50, 0)}
    ELSE {MinInt64, MaxInt64}

\* The amounts a caller passes: 0, 0.01 and 2^56 dollars.
Amounts == {Dec(0), Dec(10), Pow2(56)}

\* The amount as a mathematical count of minor units, 100 * dollars, for the
\* amounts that are a whole number of minor units below 2^63.
IsWholeMinorUnits(dollars) ==
    IF dollars.tag = "dec" THEN dollars.n % 10 = 0 ELSE dollars.n \in {55, 56}

ExactMinorUnits(dollars) ==
    IF dollars.tag = "dec" THEN Cents(dollars.n \div 10)
    ELSE IF dollars.n = 55 THEN I64(25, 0)
    ELSE I64(50, 0)

\* amount < 0 only.
Negative(dollars) == dollars.tag = "dec" /\ dollars.n < 0

\* amount <= 0 on float64.
NonPositive(dollars) == dollars.tag = "dec" /\ dollars.n <= 0

(* ------------------------------ state --------------------------------- *)

VARIABLES
    wallets,        \* committed wallets rows: id -> [user_id, balance]
    transactions,   \* committed transactions rows, in commit order
    lock,           \* row lock of each wallet id: the holder, or NoProc
    cache,          \* the redis keys present: key -> value
    pc,             \* each caller's position
    op,             \* each caller's call and its arguments
    amt,            \* amountInMinorUnits of the call
    rd,             \* the wallet rows the call read under lock: id -> balance
    buf,            \* the call's uncommitted writes
    result,         \* the outcome of each caller's last call
    callId,         \* the number of each caller's call
    calls,          \* calls started so far
    firstLocks,     \* history: <<from, to, w>> for each Transfer that took
                    \* its first row lock, on wallet w
    applied,        \* history: <<c, name, w>> for each balance write of
                    \* call number c, on wallet w, that reached the
                    \* committed store
    given,          \* the calls a scenario fixes in advance (SpecDeposits)
    reads,          \* history of GetWallet: what the last call returned for
                    \* each wallet, and when each running call started
    expired,        \* history: the numbers of the calls whose context was
                    \* done (deadline, cancellation) while they waited for
                    \* a row lock
    now             \* time.Now() at the resolution of the created_at column

\* What the calls of the ledger engine's mutations leave alone.
history == <<given, reads, expired, now>>

vars ==
    <<wallets, transactions, lock, cache, pc, op, amt, rd, buf, result,
      callId, calls, firstLocks, applied, given, reads, expired, now>>

EmptyFn == [x \in {} |-> Zero64]
EmptyBuf == [bal |-> EmptyFn, recs |-> <<>>]
\* A call: its name and arguments (0 / Dec(0) where the call has none).
Call(n, w, f, t, d, u) ==
    [name |-> n, walletID |-> w, fromWalletID |-> f, toWalletID |-> t,
     amount |-> d, userID |-> u]
NoOp == Call("none", 0, 0, 0, Dec(0), 0)
NoResult ==
    [status |-> "none", msg |-> "", tx |-> <<>>, wallet |-> 0,
     call |-> "none"]

\* What a call returns: (record, nil), (wallet, nil) or (nil, err).
Ok(t) == [NoResult EXCEPT !.status = "ok", !.tx = <<t>>]
OkWallet(w) == [NoResult EXCEPT !.status = "ok", !.wallet = w]
Err(kind, m) == [NoResult EXCEPT !.status = kind, !.msg = m]

\* The outcome r as the outcome of the operation named n.
For(n, r) == [r EXCEPT !.call = n]

\* No GetWallet has returned or is running.
NoReads ==
    [last |-> [w \in WalletIDs |-> [balance |-> Zero64, since |-> -1]],
     start |-> [w \in {} |-> 0]]

TransactionTypeDeposit == "deposit"
TransactionTypeTransfer == "transfer"

\* uuid.New(): a fresh identifier, here the call's number and the index of
\* the record within the call.
NewUUID(p, k) == <<callId[p], k>>

\* The balances wallets 1 and 2 may hold at start, each reached by one
\* earlier deposit (of 0.02 or of 2^56 dollars) or none.
SeedBalances ==
    {<<Zero64, Zero64>>, <<Cents(2), Zero64>>, <<Cents(2), Cents(2)>>,
     <<I64(50, 0), I64(50, 0)>>}

SeedRecord(w, b) ==
    [wallet_id |-> w, type |-> TransactionTypeDeposit, amount |-> b,
     balance_before |-> Zero64, balance_after |-> b,
     from_wallet_id |-> 0, to_wallet_id |-> 0, uuid |-> <<0, w>>,
     created_at |-> 0]

SeedRecords(b1, b2) ==
    (IF b1 = Zero64 THEN <<>> ELSE <<SeedRecord(1, b1)>>)
    \o (IF b2 = Zero64 THEN <<>> ELSE <<SeedRecord(2, b2)>>)

Init ==
    /\ \E b \in SeedBalances :
          /\ wallets = (1 :> [user_id |-> 1, balance |-> b[1]])
                       @@ (2 :> [user_id |-> 2, balance |-> b[2]])
          /\ transactions = SeedRecords(b[1], b[2])
    /\ lock = [w \in WalletIDs |-> NoProc]
    /\ cache = EmptyFn
    /\ pc = [p \in Procs |-> "idle"]
    /\ op = [p \in Procs |-> NoOp]
    /\ amt = [p \in Procs |-> Zero64]
    /\ rd = [p \in Procs |-> EmptyFn]
    /\ buf = [p \in Procs |-> EmptyBuf]
    /\ result = [p \in Procs |-> NoResult]
    /\ callId = [p \in Procs |-> 0]
    /\ calls = 0
    /\ firstLocks = {}
    /\ applied = {}
    /\ given = NoOp
    /\ reads = NoReads
    /\ expired = {}
    /\ now = 0

(* ----------------------- the storage transaction ---------------------- *)

\* A plain SELECT: never waits.
NoRowLock(p, w) == TRUE

\* SELECT ... FOR UPDATE on row w by p: granted when no other transaction
\* holds the row's lock, and otherwise the statement waits.
CanLock(p, w) == lock[w] = NoProc

\* Row locks that outlive the transaction that took them.
StillLocked(p) == lock

\* The row locks after p's transaction ended (commit or rollback).
Released(p) == [w \in WalletIDs |-> IF lock[w] = p THEN NoProc ELSE lock[w]]

\* The committed store with the writes of p's transaction applied.
Flush(p) ==
    [wallets |->
        [w \in DOMAIN wallets |->
            IF w \in DOMAIN buf[p].bal
            THEN [wallets[w] EXCEPT !.balance = buf[p].bal[w]]
            ELSE wallets[w]],
     transactions |-> transactions \o buf[p].recs,
     applied |->
        applied \cup {<<callId[p], op[p].name, w>> : w \in DOMAIN buf[p].bal}]

\* A commit that replaces the transactions table by the transaction's own
\* records.
CommitOverwrites(p) == [Flush(p) EXCEPT !.transactions = buf[p].recs]

\* A commit that trusts the cache: it writes nothing when the row of a
\* wallet it changes is cached.
CommitIfNotCached(p) ==
    IF \E w \in DOMAIN buf[p].bal : <<"wallet", w>> \in DOMAIN cache
    THEN [wallets |-> wallets, transactions |-> transactions,
          applied |-> applied]
    ELSE Flush(p)

\* A commit that also overwrites the balance of the rows its transaction
\* did not update.
CommitTouchesAll(p) ==
    [Flush(p) EXCEPT !.wallets =
        [w \in DOMAIN wallets |->
            IF w \in DOMAIN buf[p].bal THEN Flush(p).wallets[w]
            ELSE [wallets[w] EXCEPT !.balance = Cents(5)]]]

\* db.Transaction commits when the closure returns nil ...
Commit(p) == Flush(p)

\* A store in which the writes of a transaction that failed stay.
RollbackKeepsWrites(p) == Flush(p)

\* A store in which the balance updates of a transaction that failed stay
\* (as if issued on the connection outside the transaction).
RollbackKeepsBalances(p) ==
    [wallets |-> Flush(p).wallets, transactions |-> transactions,
     applied |-> Flush(p).applied]

\* ... and rolls back when it returns an error: the store is as before.
Rollback(p) ==
    [wallets |-> wallets, transactions |-> transactions, applied |-> applied]

\* p's call returns r: its locals are gone.
Return(p, r) ==
    /\ result' = [result EXCEPT ![p] = For(op[p].name, r)]
    /\ pc' = [pc EXCEPT ![p] = "idle"]
    /\ op' = [op EXCEPT ![p] = NoOp]
    /\ amt' = [amt EXCEPT ![p] = Zero64]
    /\ rd' = [rd EXCEPT ![p] = EmptyFn]
    /\ buf' = [buf EXCEPT ![p] = EmptyBuf]
    /\ callId' = [callId EXCEPT ![p] = 0]

\* p's call returns r; its transaction has ended with store st.
Finish(p, st, r) ==
    /\ wallets' = st.wallets
    /\ transactions' = st.transactions
    /\ applied' = st.applied
    /\ lock' = Released(p)
    /\ Return(p, r)

\* p's call moves on to position l, the store untouched.
Goto(p, l) ==
    /\ pc' = [pc EXCEPT ![p] = l]
    /\ UNCHANGED <<wallets, transactions, applied>>

\* A caller starts a call.
Begin(p) ==
    /\ pc[p] = "idle"
    /\ calls' = calls + 1
    /\ UNCHANGED history

\* The call fails before any storage access.
Reject(p, c, r) ==
    /\ result' = [result EXCEPT ![p] = For(c.name, r)]
    /\ UNCHANGED <<wallets, transactions, lock, cache, pc, op, amt, rd, buf,
                   callId, firstLocks, applied>>

\* The call c enters its storage work at position l with amount a.
Enter(p, c, a, l) ==
    /\ op' = [op EXCEPT ![p] = c]
    /\ amt' = [amt EXCEPT ![p] = a]
    /\ callId' = [callId EXCEPT ![p] = calls + 1]
    /\ result' = [result EXCEPT ![p] = NoResult]
    /\ pc' = [pc EXCEPT ![p] = l]
    /\ UNCHANGED <<wallets, transactions, lock, cache, rd, buf, firstLocks,
                   applied>>

(* ------------------------------ cache --------------------------------- *)

WalletKey(w) == <<"wallet", w>>
UserKey(u) == <<"user", u>>

\* The text of %d: the decimal digits of n, one character each.
RECURSIVE Digits(_)
Digits(n) ==
    LET d == <<"0", "1", "2", "3", "4", "5", "6", "7", "8", "9">>[(n % 10) + 1]
    IN  IF n < 10 THEN <<d>> ELSE Append(Digits(n \div 10), d)

\* The text of a wallet key, fmt.Sprintf("wallet:%d", w) or
\* fmt.Sprintf("wallet:%d:transactions:%d:%d", w, limit, offset), as its
\* pieces: the literal parts, and the digits one by one.
KeyString(k) ==
    IF Len(k) = 2 THEN <<"wallet:">> \o Digits(k[2])
    ELSE <<"wallet:">> \o Digits(k[2]) \o <<":transactions:">>
            \o Digits(k[4]) \o <<":">> \o Digits(k[5])

\* fmt.Sprintf("wallet:%d:transactions:*", w)
TransactionsPattern(w) ==
    <<"wallet:">> \o Digits(w) \o <<":transactions:", "*">>

\* The MATCH of redis SCAN for a pattern of literal text and a final *:
\* the text begins with the literal part.
MatchesGlob(pattern, s) ==
    LET n == Len(pattern) - 1 IN
    /\ pattern[n + 1] = "*"
    /\ Len(s) >= n
    /\ SubSeq(s, 1, n) = SubSeq(pattern, 1, n)

\* A sweep whose pattern is "wallet:%d*".
HasIdPrefix(k, w) ==
    /\ k[1] = "wallet"
    /\ Len(k) = 5
    /\ MatchesGlob(<<"wallet:">> \o Digits(w) \o <<"*">>, KeyString(k))

\* The key k is one the sweep of wallet w's pages finds.
IsTransactionsKey(k, w) ==
    k[1] = "wallet" /\ MatchesGlob(TransactionsPattern(w), KeyString(k))

\* json.Marshal of x, a value json.Unmarshal rejects, and the test and the
\* result of json.Unmarshal.
Encoded(x) == <<x>>
Corrupt == <<>>
Decodes(v) == Len(v) = 1
Decoded(v) == v[1]

\* The times to live, in seconds: 5*time.Minute for a wallet, 2*time.Minute
\* for a page of transactions, 10*time.Minute for a user; with 0 a key does
\* not expire.
NoTTL == 0
WalletTTL == 300
TransactionsTTL == 120
UserTTL == 600

\* A cache entry: the value stored, the time to live it was stored with
\* and, for reference, the arguments of the call that stored it.
Entry(v, ttl, args) == [value |-> v, ttl |-> ttl, args |-> args]

\* redisClient.Set(ctx, k, v, ttl) and redisClient.Del(ctx, keys...).
Set(c, k, e) == (k :> e) @@ c
Del(c, keys) == [k \in DOMAIN c \ keys |-> c[k]]

\* An invalidation that deletes nothing.
KeepWalletCache(c, w) == c

invalidateWalletCache(c, w) == Del(c, {WalletKey(w)})
invalidateUserCache(c, u) == Del(c, {UserKey(u)})
\* A sweep that deletes the default window (limit 10, offset 0) only.
invalidateDefaultPage(c, w) == Del(c, {<<"wallet", w, "transactions", 10, 0>>})

invalidateTransactionCache(c, w) ==
    Del(c, {k \in DOMAIN c : IsTransactionsKey(k, w)})

(* ------------------------------ Deposit ------------------------------- *)

DepositRecord(p) ==
    LET w == op[p].walletID
        oldBalance == rd[p][w]
        newBalance == Add64(oldBalance, amt[p])
    IN  [wallet_id |-> w, type |-> TransactionTypeDeposit, amount |-> amt[p],
         balance_before |-> oldBalance, balance_after |-> newBalance,
         from_wallet_id |-> 0, to_wallet_id |-> 0, uuid |-> NewUUID(p, 1),
         created_at |-> now]

DepositCall(p, w, d) ==
    LET c == Call("deposit", w, 0, 0, d, 0) IN
    /\ Begin(p)
    /\ IF NonPositive(d)
       THEN Reject(p, c, Err("InvalidAmount", "amount must be positive"))
       ELSE \E a \in DollarsToMinorUnits(d) : Enter(p, c, a, "d_lock")

\* First(&wallet, walletID) with clause.Locking{Strength: "UPDATE"}.
DepositLock(p) ==
    LET w == op[p].walletID IN
    /\ pc[p] = "d_lock"
    /\ IF w \notin DOMAIN wallets
       THEN Finish(p, Rollback(p), Err("WalletNotFound", "record not found"))
       ELSE /\ CanLock(p, w)
            /\ lock' = [lock EXCEPT ![w] = p]
            /\ rd' = [rd EXCEPT ![p] = (w :> wallets[w].balance)]
            /\ Goto(p, "d_update")
            /\ UNCHANGED <<op, amt, buf, result, callId>>
    /\ UNCHANGED <<cache, calls, history, firstLocks>>

\* tx.Model(&wallet).Update("balance", newBalance)
DepositUpdate(p) ==
    LET w == op[p].walletID IN
    /\ pc[p] = "d_update"
    /\ buf' = [buf EXCEPT ![p].bal = (w :> Add64(rd[p][w], amt[p])) @@ @]
    /\ Goto(p, "d_create")
    /\ UNCHANGED <<lock, cache, op, amt, rd, result, callId, calls, history,
                   firstLocks>>

\* tx.Create(transaction)
DepositCreate(p) ==
    /\ pc[p] = "d_create"
    /\ buf' = [buf EXCEPT ![p].recs = Append(@, DepositRecord(p))]
    /\ Goto(p, "d_commit")
    /\ UNCHANGED <<lock, cache, op, amt, rd, result, callId, calls, history,
                   firstLocks>>

\* The closure returned nil: commit, which releases the row lock.
DepositCommit(p) ==
    /\ pc[p] = "d_commit"
    /\ LET st == Commit(p) IN
          /\ wallets' = st.wallets
          /\ transactions' = st.transactions
          /\ applied' = st.applied
    /\ lock' = Released(p)
    /\ pc' = [pc EXCEPT ![p] = "d_inval"]
    /\ UNCHANGED <<cache, op, amt, rd, buf, result, callId, calls, history,
                   firstLocks>>

\* invalidateWalletCache, invalidateTransactionCache, return transaction.
DepositInvalidate(p) ==
    LET w == op[p].walletID IN
    /\ pc[p] = "d_inval"
    /\ cache' = invalidateTransactionCache(invalidateWalletCache(cache, w), w)
    /\ Return(p, Ok(buf[p].recs[1]))
    /\ UNCHANGED <<wallets, transactions, lock, calls, history, firstLocks,
                   applied>>

(* ------------------------------ Transfer ------------------------------ *)

\* fromWallet.Balance < amountInMinorUnits does not hold.
SufficientBalance(balance, a) == ~Lt64(balance, a)

FromRecord(p) ==
    LET f == op[p].fromWalletID
        t == op[p].toWalletID
        fromOldBalance == rd[p][f]
        fromNewBalance == Sub64(fromOldBalance, amt[p])
    IN  [wallet_id |-> f, type |-> TransactionTypeTransfer,
         amount |-> Neg64(amt[p]),
         balance_before |-> fromOldBalance, balance_after |-> fromNewBalance,
         from_wallet_id |-> f, to_wallet_id |-> t, uuid |-> NewUUID(p, 1),
         created_at |-> now]

ToRecord(p) ==
    LET f == op[p].fromWalletID
        t == op[p].toWalletID
        toOldBalance == rd[p][t]
        toNewBalance == Add64(toOldBalance, amt[p])
    IN  [wallet_id |-> t, type |-> TransactionTypeTransfer,
         amount |-> amt[p],
         balance_before |-> toOldBalance, balance_after |-> toNewBalance,
         from_wallet_id |-> f, to_wallet_id |-> t, uuid |-> NewUUID(p, 2),
         created_at |-> now]

\* A check that lets every pair of wallets through.
AnyPair(f, t) == FALSE

\* fromWalletID == toWalletID
SameWallet(f, t) == f = t

TransferCall(p, f, t, d) ==
    LET c == Call("transfer", 0, f, t, d, 0) IN
    /\ Begin(p)
    /\ IF NonPositive(d)
       THEN Reject(p, c, Err("InvalidAmount", "amount must be positive"))
       ELSE IF SameWallet(f, t)
       THEN Reject(p, c, Err("InvalidTransfer",
                          "cannot transfer to the same wallet"))
       ELSE \E a \in DollarsToMinorUnits(d) : Enter(p, c, a, "t_lock_from")

\* First(&fromWallet, fromWalletID) with clause.Locking{Strength: "UPDATE"}.
TransferLockFrom(p) ==
    LET f == op[p].fromWalletID
        t == op[p].toWalletID
    IN
    /\ pc[p] = "t_lock_from"
    /\ IF f \notin DOMAIN wallets
       THEN /\ Finish(p, Rollback(p),
                      Err("WalletNotFound", "source wallet not found"))
            /\ UNCHANGED firstLocks
       ELSE /\ CanLock(p, f)
            /\ lock' = [lock EXCEPT ![f] = p]
            /\ rd' = [rd EXCEPT ![p] = (f :> wallets[f].balance)]
            /\ firstLocks' = firstLocks \cup {<<f, t, f>>}
            /\ Goto(p, "t_lock_to")
            /\ UNCHANGED <<op, amt, buf, result, callId>>
    /\ UNCHANGED <<cache, calls, history>>

\* First(&toWallet, toWalletID) with the same locking clause, then the
\* balance check.
TransferLockTo(p) ==
    LET f == op[p].fromWalletID
        t == op[p].toWalletID
    IN
    /\ pc[p] = "t_lock_to"
    /\ IF t \notin DOMAIN wallets
       THEN Finish(p, Rollback(p),
                   Err("WalletNotFound", "destination wallet not found"))
       ELSE /\ CanLock(p, t)
            /\ IF SufficientBalance(rd[p][f], amt[p])
               THEN /\ lock' = [lock EXCEPT ![t] = p]
                    /\ rd' = [rd EXCEPT ![p] = (t :> wallets[t].balance) @@ @]
                    /\ Goto(p, "t_update_from")
                    /\ UNCHANGED <<op, amt, buf, result, callId>>
               ELSE Finish(p, Rollback(p),
                           Err("InsufficientFunds", "insufficient balance"))
    /\ UNCHANGED <<cache, calls, history, firstLocks>>

\* tx.Model(&fromWallet).Update("balance", fromNewBalance)
TransferUpdateFrom(p) ==
    LET f == op[p].fromWalletID IN
    /\ pc[p] = "t_update_from"
    /\ buf' = [buf EXCEPT ![p].bal = (f :> Sub64(rd[p][f], amt[p])) @@ @]
    /\ Goto(p, "t_update_to")
    /\ UNCHANGED <<lock, cache, op, amt, rd, result, callId, calls, history,
                   firstLocks>>

\* tx.Model(&toWallet).Update("balance", toNewBalance)
TransferUpdateTo(p) ==
    LET t == op[p].toWalletID IN
    /\ pc[p] = "t_update_to"
    /\ buf' = [buf EXCEPT ![p].bal = (t :> Add64(rd[p][t], amt[p])) @@ @]
    /\ Goto(p, "t_create_from")
    /\ UNCHANGED <<lock, cache, op, amt, rd, result, callId, calls, history,
                   firstLocks>>

\* tx.Create(fromTransaction)
TransferCreateFrom(p) ==
    /\ pc[p] = "t_create_from"
    /\ buf' = [buf EXCEPT ![p].recs = Append(@, FromRecord(p))]
    /\ Goto(p, "t_create_to")
    /\ UNCHANGED <<lock, cache, op, amt, rd, result, callId, calls, history,
                   firstLocks>>

\* tx.Create(toTransaction)
TransferCreateTo(p) ==
    /\ pc[p] = "t_create_to"
    /\ buf' = [buf EXCEPT ![p].recs = Append(@, ToRecord(p))]
    /\ Goto(p, "t_commit")
    /\ UNCHANGED <<lock, cache, op, amt, rd, result, callId, calls, history,
                   firstLocks>>

\* The closure returned nil: commit, which releases both row locks.
TransferCommit(p) ==
    /\ pc[p] = "t_commit"
    /\ LET st == Commit(p) IN
          /\ wallets' = st.wallets
          /\ transactions' = st.transactions
          /\ applied' = st.applied
    /\ lock' = Released(p)
    /\ pc' = [pc EXCEPT ![p] = "t_inval"]
    /\ UNCHANGED <<cache, op, amt, rd, buf, result, callId, calls, history,
                   firstLocks>>

\* The four invalidations, return fromTransaction.
TransferInvalidate(p) ==
    LET f == op[p].fromWalletID
        t == op[p].toWalletID
    IN
    /\ pc[p] = "t_inval"
    /\ cache' = invalidateTransactionCache(
                    invalidateTransactionCache(
                        invalidateWalletCache(
                            invalidateWalletCache(cache, f), t), f), t)
    /\ Return(p, Ok(buf[p].recs[1]))
    /\ UNCHANGED <<wallets, transactions, lock, calls, history, firstLocks,
                   applied>>

(* ---------------------------- CreateWallet ---------------------------- *)

\* The id the store gives the next wallet row (auto-increment, no deletes).
NextWalletID == Cardinality(DOMAIN wallets) + 1

\* A wallet row that starts with money on it.
FundedWallet(u) == [user_id |-> u, balance |-> Cents(1)]

\* &domain.Wallet{UserID: userID, Balance: 0}
NewWallet(u) == [user_id |-> u, balance |-> Zero64]

\* userRepo.GetByID: accounts are created at registration only.
CreateWalletCall(p, u) ==
    LET c == Call("create_wallet", 0, 0, 0, Dec(0), u) IN
    /\ Begin(p)
    /\ Cardinality(DOMAIN wallets)
         + Cardinality({q \in Procs : pc[q] = "c_create"})
         < Cardinality(WalletIDs)
    /\ IF u \notin Users
       THEN Reject(p, c, Err("AccountNotFound", "user not found"))
       ELSE Enter(p, c, Zero64, "c_create")

\* walletRepo.Create(wallet) with UserID: userID, Balance: 0.
CreateWalletInsert(p) ==
    /\ pc[p] = "c_create"
    /\ wallets' = (NextWalletID :> NewWallet(op[p].userID)) @@ wallets
    /\ op' = [op EXCEPT ![p].walletID = NextWalletID]
    /\ pc' = [pc EXCEPT ![p] = "c_inval"]
    /\ UNCHANGED <<transactions, lock, cache, amt, rd, buf, result, callId,
                   calls, history, firstLocks, applied>>

\* invalidateUserCache, return wallet.
CreateWalletInvalidate(p) ==
    /\ pc[p] = "c_inval"
    /\ cache' = invalidateUserCache(cache, op[p].userID)
    /\ Return(p, OkWallet(op[p].walletID))
    /\ UNCHANGED <<wallets, transactions, lock, calls, history, firstLocks,
                   applied>>

(* --------------------------- storage faults --------------------------- *)

\* The positions at which a call has a storage statement (or the commit)
\* pending.
TxPcs ==
    {"d_lock", "d_update", "d_create", "d_commit",
     "t_lock_from", "t_lock_to", "t_update_from", "t_update_to",
     "t_create_from", "t_create_to", "t_commit", "c_create"}

\* The pending statement fails (connection loss, the server's lock wait
\* timeout, being chosen as the victim of a detected deadlock): the
\* closure returns the error and db.Transaction rolls back.
StorageFault(p) ==
    /\ pc[p] \in TxPcs
    /\ Finish(p, Rollback(p), Err("StorageFailure", "storage fault"))
    /\ UNCHANGED <<cache, calls, history, firstLocks>>

\* The model admits MaxCalls calls; callers are interchangeable, and the
\* first call of a behaviour is p1's.
Admit(p) == calls < MaxCalls /\ (calls = 0 => p = "p1")

Next ==
    \E p \in Procs :
        \/ \E w \in WalletIDs, d \in Amounts :
              Admit(p) /\ DepositCall(p, w, d)
        \/ DepositLock(p)
        \/ DepositUpdate(p)
        \/ DepositCreate(p)
        \/ DepositCommit(p)
        \/ DepositInvalidate(p)
        \/ \E f \in WalletIDs, t \in WalletIDs, d \in Amounts :
              Admit(p) /\ TransferCall(p, f, t, d)
        \/ TransferLockFrom(p)
        \/ TransferLockTo(p)
        \/ TransferUpdateFrom(p)
        \/ TransferUpdateTo(p)
        \/ TransferCreateFrom(p)
        \/ TransferCreateTo(p)
        \/ TransferCommit(p)
        \/ TransferInvalidate(p)
        \/ \E u \in UserIDs : Admit(p) /\ CreateWalletCall(p, u)
        \/ CreateWalletInsert(p)
        \/ CreateWalletInvalidate(p)
        \/ StorageFault(p)

Spec == Init /\ [][Next]_vars

(* --------- N concurrent deposits of one amount on one wallet ---------- *)

DepositProcs == {"p1", "p2", "p3"}

\* 0.005, 0.01, 0.29 and 2^56 dollars.
DepositAmounts == {Dec(5), Dec(10), Dec(290), Pow2(56)}

InitDeposits ==
    /\ wallets = (1 :> [user_id |-> 1, balance |-> Zero64])
                 @@ (2 :> [user_id |-> 2, balance |-> Zero64])
    /\ transactions = <<>>
    /\ lock = [w \in WalletIDs |-> NoProc]
    /\ cache = EmptyFn
    /\ pc = [p \in DepositProcs |-> "idle"]
    /\ op = [p \in DepositProcs |-> NoOp]
    /\ amt = [p \in DepositProcs |-> Zero64]
    /\ rd = [p \in DepositProcs |-> EmptyFn]
    /\ buf = [p \in DepositProcs |-> EmptyBuf]
    /\ result = [p \in DepositProcs |-> NoResult]
    /\ callId = [p \in DepositProcs |-> 0]
    /\ calls = 0
    /\ firstLocks = {}
    /\ applied = {}
    /\ \E d \in DepositAmounts : given = Call("deposit", 1, 0, 0, d, 0)
    /\ reads = NoReads
    /\ expired = {}
    /\ now = 0

\* Each caller makes the given call once.
GivenDeposit(p) ==
    /\ result[p] = NoResult
    /\ DepositCall(p, given.walletID, given.amount)

NextDeposits ==
    \E p \in DepositProcs :
        \/ GivenDeposit(p)
        \/ DepositLock(p)
        \/ DepositUpdate(p)
        \/ DepositCreate(p)
        \/ DepositCommit(p)
        \/ DepositInvalidate(p)
        \/ StorageFault(p)

SpecDeposits == InitDeposits /\ [][NextDeposits]_vars

(* ------- concurrent Transfers at the boundary of the amounts ---------- *)

\* 0.005, 0.01, 0.02 and 2^60 dollars.
TransferAmounts == {Dec(5), Dec(10), Dec(20), Pow2(60)}

NextTransfers ==
    \E p \in Procs :
        \/ \E f \in DOMAIN wallets, t \in DOMAIN wallets,
              d \in TransferAmounts :
              Admit(p) /\ TransferCall(p, f, t, d)
        \/ TransferLockFrom(p)
        \/ TransferLockTo(p)
        \/ TransferUpdateFrom(p)
        \/ TransferUpdateTo(p)
        \/ TransferCreateFrom(p)
        \/ TransferCreateTo(p)
        \/ TransferCommit(p)
        \/ TransferInvalidate(p)
        \/ StorageFault(p)

SpecTransfers == Init /\ [][NextTransfers]_vars

(* ------------- the caller's deadline during a lock wait --------------- *)

\* The positions at which a call asks for a row lock.
LockPcs == {"d_lock", "t_lock_from", "t_lock_to"}

\* The row p's pending locking read asks for.
Wanted(p) ==
    CASE pc[p] = "d_lock" -> op[p].walletID
      [] pc[p] = "t_lock_from" -> op[p].fromWalletID
      [] pc[p] = "t_lock_to" -> op[p].toWalletID
      [] OTHER -> 0

\* p's locking read waits for a row another transaction holds.
WaitsForLock(p) ==
    /\ pc[p] \in LockPcs
    /\ Wanted(p) \in DOMAIN wallets
    /\ ~CanLock(p, Wanted(p))

\* The deadline of p's context passes (or the context is cancelled) while
\* p waits for the row. s.db.Transaction is called on s.db, not on
\* s.db.WithContext(ctx): the transaction and its statements run under
\* context.Background(), nothing observes ctx.Done(), and the wait goes on.
DeadlineExpires(p) ==
    /\ WaitsForLock(p)
    /\ callId[p] \notin expired
    /\ expired' = expired \cup {callId[p]}
    /\ UNCHANGED <<wallets, transactions, lock, cache, pc, op, amt, rd, buf,
                   result, callId, calls, firstLocks, applied, given, reads,
                   now>>

\* Deposits and Transfers of 0.01 dollars with deadlines, and no
\* infrastructure fault.
NextDeadline ==
    \E p \in Procs :
        \/ \E w \in DOMAIN wallets : Admit(p) /\ DepositCall(p, w, Dec(10))
        \/ DepositLock(p)
        \/ DepositUpdate(p)
        \/ DepositCreate(p)
        \/ DepositCommit(p)
        \/ DepositInvalidate(p)
        \/ \E f \in DOMAIN wallets, t \in DOMAIN wallets :
              Admit(p) /\ TransferCall(p, f, t, Dec(10))
        \/ TransferLockFrom(p)
        \/ TransferLockTo(p)
        \/ TransferUpdateFrom(p)
        \/ TransferUpdateTo(p)
        \/ TransferCreateFrom(p)
        \/ TransferCreateTo(p)
        \/ TransferCommit(p)
        \/ TransferInvalidate(p)
        \/ DeadlineExpires(p)

SpecDeadline == Init /\ [][NextDeadline]_vars

(* ------------- the HTTP layer: GetWallet and ownership ---------------- *)

\* The committed records of wallet w, in commit order.
RecordsOf(w) == SelectSeq(transactions, LAMBDA r : r.wallet_id = w)

\* The wallet the handler looks up before it acts: the source for a
\* transfer, the request's wallet otherwise.
Target(c) == IF c.name = "transfer" THEN c.fromWalletID ELSE c.walletID

\* Find(&wallet, id): a zero-valued row when there is none.
FindOrZero(w) ==
    IF w \in DOMAIN wallets
    THEN <<wallets[w]>>
    ELSE <<[user_id |-> 0, balance |-> Zero64]>>

\* walletRepo.GetByID, First(&wallet, id): the row, or ErrRecordNotFound
\* (no row).
GetByID(w) == IF w \in DOMAIN wallets THEN <<wallets[w]>> ELSE <<>>

\* A check that passes whoever asks.
OwnsAny(u, wallet) == TRUE

\* wallet.UserID != userID.(uint) does not hold.
Owns(u, wallet) == wallet.user_id = u

NotFound404 == Err("WalletNotFound", "404 Wallet not found")
Forbidden403 == Err("Forbidden", "403 Access denied")
ValidationFailed400 == Err("ValidationFailed", "400 Validation failed")

\* validate:"required,gt=0" on the request's amount.
Validated(c) ==
    c.name \in {"deposit", "transfer"} => ~(c.amount.tag = "dec"
                                           /\ c.amount.n <= 0)

\* GetTransactions(walletID, limit, offset) for user u.
GetTransactionsCall(w, u, limit, offset) ==
    [limit |-> limit, offset |-> offset]
        @@ Call("get_transactions", w, 0, 0, Dec(0), u)

\* The requests: GET /wallets/:id, POST /wallets/deposit,
\* POST /wallets/transfer, GET /wallets/:id/transactions, by user u, on
\* wallet 1 (user 1's) and on the absent wallet 3.
Requests ==
    {Call("get_wallet", w, 0, 0, Dec(0), u) : w \in {1, 3}, u \in Users}
    \cup {Call("deposit", 1, 0, 0, d, u) :
            u \in Users, d \in {Dec(0), Dec(10)}}
    \cup {Call("transfer", 0, 1, 2, Dec(10), u) : u \in Users}
    \cup {GetTransactionsCall(1, u, 10, 0) : u \in Users}

\* One request more than the calls of the engine's own scenario.
MaxRequests == MaxCalls + 1

\* The handler receives request c; after validation its first act is
\* walletService.GetWallet on the target.
HttpRequest(p, c) ==
    /\ pc[p] = "idle"
    /\ calls < MaxRequests
    /\ calls = 0 => p = "p1"
    /\ calls' = calls + 1
    /\ IF Validated(c)
       THEN /\ Enter(p, c, Zero64, "g_cache")
            /\ reads' = [reads EXCEPT !.start =
                            (p :> Len(RecordsOf(Target(c)))) @@ @]
       ELSE /\ Reject(p, c, ValidationFailed400)
            /\ UNCHANGED reads
    /\ UNCHANGED <<given, expired, now>>

\* GetWallet returns the wallet row wl to the handler: the call is over.
GetWalletReturns(p, wl) ==
    LET w == Target(op[p])
        n == Len(RecordsOf(w))
    IN  /\ rd' = [rd EXCEPT ![p] = (w :> wl)]
        /\ pc' = [pc EXCEPT ![p] = "h_check"]
        /\ reads' =
              [last |-> IF reads.start[p] = n
                        THEN [reads.last EXCEPT
                                ![w] = [balance |-> wl.balance, since |-> n]]
                        ELSE reads.last,
               start |-> [q \in DOMAIN reads.start \ {p} |-> reads.start[q]]]

\* redisClient.Get(ctx, "wallet:%d"): a hit that json.Unmarshal accepts
\* returns the cached row.
GetWalletCache(p) ==
    LET k == WalletKey(Target(op[p])) IN
    /\ pc[p] = "g_cache"
    /\ IF k \in DOMAIN cache /\ Decodes(cache[k].value)
       THEN GetWalletReturns(p, Decoded(cache[k].value))
       ELSE /\ pc' = [pc EXCEPT ![p] = "g_db"]
            /\ UNCHANGED <<rd, reads>>
    /\ UNCHANGED <<wallets, transactions, lock, cache, op, amt, buf, result,
                   callId, calls, firstLocks, applied, given, expired, now>>

\* walletRepo.GetByID: an error makes the handler answer 404.
GetWalletDB(p) ==
    LET w == Target(op[p]) IN
    /\ pc[p] = "g_db"
    /\ IF GetByID(w) = <<>>
       THEN /\ Return(p, NotFound404)
            /\ reads' = [reads EXCEPT !.start =
                            [q \in DOMAIN @ \ {p} |-> @[q]]]
       ELSE /\ rd' = [rd EXCEPT ![p] = (w :> GetByID(w)[1])]
            /\ pc' = [pc EXCEPT ![p] = "g_set"]
            /\ UNCHANGED <<op, amt, buf, result, callId, reads>>
    /\ UNCHANGED <<wallets, transactions, lock, cache, calls, firstLocks,
                   applied, given, expired, now>>

\* A GetWallet that returns the row it read without storing it.
GetWalletNoStore(p) ==
    /\ pc[p] = "g_set"
    /\ GetWalletReturns(p, rd[p][Target(op[p])])
    /\ UNCHANGED <<wallets, transactions, lock, cache, op, amt, buf, result,
                   callId, calls, firstLocks, applied, given, expired, now>>

\* redisClient.Set(ctx, cacheKey, walletJSON, 5*time.Minute); return wallet.
GetWalletSet(p) ==
    LET w == Target(op[p]) IN
    /\ pc[p] = "g_set"
    /\ cache' = Set(cache, WalletKey(w),
                     Entry(Encoded(rd[p][w]), WalletTTL, <<w>>))
    /\ GetWalletReturns(p, rd[p][w])
    /\ UNCHANGED <<wallets, transactions, lock, op, amt, buf, result, callId,
                   calls, firstLocks, applied, given, expired, now>>

\* The ownership check, then the engine's operation.
HandlerCheck(p) ==
    LET c == op[p]
        w == Target(c)
    IN
    /\ pc[p] = "h_check"
    /\ IF ~Owns(c.userID, rd[p][w])
       THEN Return(p, Forbidden403)
       ELSE IF c.name = "get_wallet"
       THEN Return(p, Ok(rd[p][w]))
       ELSE IF c.name = "transfer" /\ SameWallet(c.fromWalletID, c.toWalletID)
       THEN Return(p, Err("InvalidTransfer",
                             "cannot transfer to the same wallet"))
       ELSE /\ \E a \in DollarsToMinorUnits(c.amount) :
                  amt' = [amt EXCEPT ![p] = a]
            /\ rd' = [rd EXCEPT ![p] = EmptyFn]
            /\ pc' = [pc EXCEPT ![p] =
                        IF c.name = "deposit" THEN "d_lock"
                        ELSE IF c.name = "transfer" THEN "t_lock_from"
                        ELSE "gt_cache"]
            /\ UNCHANGED <<op, buf, result, callId>>
    /\ UNCHANGED <<wallets, transactions, lock, cache, calls, firstLocks,
                   applied, history>>

\* A key that leaves the offset out.
KeyWithoutOffset(w, limit, offset) == <<"wallet", w, "transactions", limit, 0>>

\* "wallet:%d:transactions:%d:%d"
TransactionsKey(w, limit, offset) ==
    <<"wallet", w, "transactions", limit, offset>>

\* The page a GetTransactions call asks for.
PageKey(c) == TransactionsKey(c.walletID, c.limit, c.offset)

\* ORDER BY created_at DESC on the rows S: every order in which no row
\* comes before a row created later; the engine is free to return rows of
\* equal created_at in any order, and differently from one execution to
\* the next.
RECURSIVE Orders(_)
Orders(S) ==
    IF S = {} THEN {<<>>}
    ELSE UNION {{<<x>> \o q : q \in Orders(S \ {x})} :
                  x \in {y \in S : \A z \in S : z.created_at <= y.created_at}}

Min(a, b) == IF a < b THEN a ELSE b

\* LIMIT limit OFFSET offset.
Window(q, limit, offset) == SubSeq(q, offset + 1, Min(Len(q), offset + limit))

\* transactionRepo.GetByWalletID: the pages the query may return.
GetByWalletID(w, limit, offset) ==
    {Window(q, limit, offset) :
        q \in Orders({transactions[i] : i \in
                        {j \in 1..Len(transactions) :
                            transactions[j].wallet_id = w}})}

\* GetTransactions: the cached page, or the stored one, which is cached for
\* 2 minutes.
GetTransactionsCache(p) ==
    LET k == PageKey(op[p]) IN
    /\ pc[p] = "gt_cache"
    /\ IF k \in DOMAIN cache /\ Decodes(cache[k].value)
       THEN Return(p, [Ok(<<>>) EXCEPT !.tx = Decoded(cache[k].value)])
       ELSE /\ pc' = [pc EXCEPT ![p] = "gt_db"]
            /\ UNCHANGED <<op, amt, rd, buf, result, callId>>
    /\ UNCHANGED <<wallets, transactions, lock, cache, calls, firstLocks,
                   applied, history>>

GetTransactionsDB(p) ==
    /\ pc[p] = "gt_db"
    /\ \E page \in GetByWalletID(op[p].walletID, op[p].limit, op[p].offset) :
          rd' = [rd EXCEPT ![p] = (0 :> page)]
    /\ pc' = [pc EXCEPT ![p] = "gt_set"]
    /\ UNCHANGED <<wallets, transactions, lock, cache, op, amt, buf, result,
                   callId, calls, firstLocks, applied, history>>

GetTransactionsSet(p) ==
    /\ pc[p] = "gt_set"
    /\ cache' = Set(cache, PageKey(op[p]),
                     Entry(Encoded(rd[p][0]), TransactionsTTL,
                           <<op[p].walletID, op[p].limit, op[p].offset>>))
    /\ Return(p, [Ok(<<>>) EXCEPT !.tx = rd[p][0]])
    /\ UNCHANGED <<wallets, transactions, lock, calls, firstLocks, applied,
                   history>>

\* A key that never expires.
NeverExpires(k) == FALSE /\ UNCHANGED vars

\* A key's time to live runs out.
Expire(k) ==
    /\ k \in DOMAIN cache
    /\ cache[k].ttl > NoTTL
    /\ cache' = Del(cache, {k})
    /\ UNCHANGED <<wallets, transactions, lock, pc, op, amt, rd, buf, result,
                   callId, calls, firstLocks, applied, history>>

\* Wallets 1 and 2 exist with balance zero; the cache holds wallet 1 (an
\* earlier GetWallet put it there) until the entry expires.
InitHTTP ==
    /\ wallets = (1 :> NewWallet(1)) @@ (2 :> NewWallet(2))
    /\ transactions = <<>>
    /\ lock = [w \in WalletIDs |-> NoProc]
    /\ cache = Set(EmptyFn, WalletKey(1),
                    Entry(Encoded(NewWallet(1)), WalletTTL, <<1>>))
    /\ pc = [p \in Procs |-> "idle"]
    /\ op = [p \in Procs |-> NoOp]
    /\ amt = [p \in Procs |-> Zero64]
    /\ rd = [p \in Procs |-> EmptyFn]
    /\ buf = [p \in Procs |-> EmptyBuf]
    /\ result = [p \in Procs |-> NoResult]
    /\ callId = [p \in Procs |-> 0]
    /\ calls = 0
    /\ firstLocks = {}
    /\ applied = {}
    /\ given = NoOp
    /\ reads = NoReads
    /\ expired = {}
    /\ now = 0

NextHTTP ==
    \/ \E p \in Procs :
        \/ \E c \in Requests : HttpRequest(p, c)
        \/ GetWalletCache(p)
        \/ GetWalletDB(p)
        \/ GetWalletSet(p)
        \/ HandlerCheck(p)
        \/ GetTransactionsCache(p)
        \/ GetTransactionsDB(p)
        \/ GetTransactionsSet(p)
        \/ DepositLock(p)
        \/ DepositUpdate(p)
        \/ DepositCreate(p)
        \/ DepositCommit(p)
        \/ DepositInvalidate(p)
        \/ TransferLockFrom(p)
        \/ TransferLockTo(p)
        \/ TransferUpdateFrom(p)
        \/ TransferUpdateTo(p)
        \/ TransferCreateFrom(p)
        \/ TransferCreateTo(p)
        \/ TransferCommit(p)
        \/ TransferInvalidate(p)
    \/ \E k \in DOMAIN cache : Expire(k)

SpecHTTP == InitHTTP /\ [][NextHTTP]_vars

(* ---------- the cache beside the mutations: entries and pages ---------- *)

\* What the cache may hold for wallet 1 when the requests start: nothing, the
\* row an earlier GetWallet stored, or a value that does not decode.
WarmCaches ==
    {EmptyFn,
     Set(EmptyFn, WalletKey(1),
         Entry(Encoded([user_id |-> 1, balance |-> Cents(2)]), WalletTTL,
               <<1>>)),
     Set(EmptyFn, WalletKey(1), Entry(Corrupt, WalletTTL, <<1>>))}

\* Wallet 1 holds 0.02 dollars from one deposit, wallet 2 is empty.
InitPages ==
    /\ wallets = (1 :> [user_id |-> 1, balance |-> Cents(2)])
                 @@ (2 :> [user_id |-> 2, balance |-> Zero64])
    /\ transactions = SeedRecords(Cents(2), Zero64)
    /\ lock = [w \in WalletIDs |-> NoProc]
    /\ cache \in WarmCaches
    /\ pc = [p \in Procs |-> "idle"]
    /\ op = [p \in Procs |-> NoOp]
    /\ amt = [p \in Procs |-> Zero64]
    /\ rd = [p \in Procs |-> EmptyFn]
    /\ buf = [p \in Procs |-> EmptyBuf]
    /\ result = [p \in Procs |-> NoResult]
    /\ callId = [p \in Procs |-> 0]
    /\ calls = 0
    /\ firstLocks = {}
    /\ applied = {}
    /\ given = NoOp
    /\ reads = NoReads
    /\ expired = {}
    /\ now = 0

\* The owner's requests on wallet 1: a Deposit of 0.01, a Transfer of 0.01
\* to wallet 2, and the pages (limit 1, offset 0) and (limit 1, offset 1);
\* each starts with the handler's GetWallet.
PageRequests ==
    {Call("deposit", 1, 0, 0, Dec(10), 1),
     Call("transfer", 0, 1, 2, Dec(10), 1),
     GetTransactionsCall(1, 1, 1, 0),
     GetTransactionsCall(1, 1, 1, 1)}

NextPages ==
    \/ \E p \in Procs :
        \/ \E c \in PageRequests : HttpRequest(p, c)
        \/ GetWalletCache(p)
        \/ GetWalletDB(p)
        \/ GetWalletSet(p)
        \/ HandlerCheck(p)
        \/ GetTransactionsCache(p)
        \/ GetTransactionsDB(p)
        \/ GetTransactionsSet(p)
        \/ DepositLock(p)
        \/ DepositUpdate(p)
        \/ DepositCreate(p)
        \/ DepositCommit(p)
        \/ DepositInvalidate(p)
        \/ TransferLockFrom(p)
        \/ TransferLockTo(p)
        \/ TransferUpdateFrom(p)
        \/ TransferUpdateTo(p)
        \/ TransferCreateFrom(p)
        \/ TransferCreateTo(p)
        \/ TransferCommit(p)
        \/ TransferInvalidate(p)
        \/ StorageFault(p)
    \/ \E k \in DOMAIN cache : Expire(k)

SpecPages == InitPages /\ [][NextPages]_vars

(* ------------------------ the cache unavailable ------------------------ *)

\* A cache that still answers GetWallet with what it holds.
AnswersFromCache(p) == GetWalletCache(p)

\* redisClient.Get fails: err != nil, GetWallet goes on to storage whatever
\* the cache holds.
GetWalletCacheFault(p) ==
    /\ pc[p] = "g_cache"
    /\ pc' = [pc EXCEPT ![p] = "g_db"]
    /\ UNCHANGED <<wallets, transactions, lock, cache, op, amt, rd, buf,
                   result, callId, calls, firstLocks, applied, history>>

\* redisClient.Set fails: its result is not looked at, GetWallet returns the
\* row.
GetWalletSetFault(p) ==
    /\ pc[p] = "g_set"
    /\ GetWalletReturns(p, rd[p][Target(op[p])])
    /\ UNCHANGED <<wallets, transactions, lock, cache, op, amt, buf, result,
                   callId, calls, firstLocks, applied, given, expired, now>>

\* redisClient.Get fails in GetTransactions.
GetTransactionsCacheFault(p) ==
    /\ pc[p] = "gt_cache"
    /\ pc' = [pc EXCEPT ![p] = "gt_db"]
    /\ UNCHANGED <<wallets, transactions, lock, cache, op, amt, rd, buf,
                   result, callId, calls, firstLocks, applied, history>>

\* redisClient.Set fails in GetTransactions.
GetTransactionsSetFault(p) ==
    /\ pc[p] = "gt_set"
    /\ Return(p, [Ok(<<>>) EXCEPT !.tx = rd[p][0]])
    /\ UNCHANGED <<wallets, transactions, lock, cache, calls, firstLocks,
                   applied, history>>

\* An invalidation whose failure is returned to the caller.
InvalidationFatal(p) ==
    /\ pc[p] \in {"d_inval", "t_inval"}
    /\ Return(p, Err("StorageFailure", "cache invalidation failed"))
    /\ UNCHANGED <<wallets, transactions, lock, cache, calls, firstLocks,
                   applied, history>>

\* The invalidations of Deposit or Transfer fail: redisClient.Del's result
\* is not looked at and the error of the Scan iterator is logged; the call
\* returns its record.
InvalidationFault(p) ==
    /\ pc[p] \in {"d_inval", "t_inval"}
    /\ Return(p, Ok(buf[p].recs[1]))
    /\ UNCHANGED <<wallets, transactions, lock, cache, calls, firstLocks,
                   applied, history>>

\* What the cache held for wallet 1 when it became unavailable: a row and a
\* first page that are not those of storage.
LeftInCache ==
    Set(Set(EmptyFn, WalletKey(1),
            Entry(Encoded([user_id |-> 1, balance |-> Cents(7)]),
                  WalletTTL, <<1>>)),
        TransactionsKey(1, 10, 0),
        Entry(Encoded(<<>>), TransactionsTTL, <<1, 10, 0>>))

InitCacheDown ==
    /\ wallets = (1 :> [user_id |-> 1, balance |-> Cents(2)])
                 @@ (2 :> [user_id |-> 2, balance |-> Zero64])
    /\ transactions = SeedRecords(Cents(2), Zero64)
    /\ lock = [w \in WalletIDs |-> NoProc]
    /\ cache = LeftInCache
    /\ pc = [p \in Procs |-> "idle"]
    /\ op = [p \in Procs |-> NoOp]
    /\ amt = [p \in Procs |-> Zero64]
    /\ rd = [p \in Procs |-> EmptyFn]
    /\ buf = [p \in Procs |-> EmptyBuf]
    /\ result = [p \in Procs |-> NoResult]
    /\ callId = [p \in Procs |-> 0]
    /\ calls = 0
    /\ firstLocks = {}
    /\ applied = {}
    /\ given = NoOp
    /\ reads = NoReads
    /\ expired = {}
    /\ now = 0

\* The owner's requests on wallet 1 while the cache is unavailable.
CacheDownRequests ==
    {Call("get_wallet", 1, 0, 0, Dec(0), 1),
     Call("deposit", 1, 0, 0, Dec(10), 1),
     Call("transfer", 0, 1, 2, Dec(10), 1),
     GetTransactionsCall(1, 1, 10, 0)}

\* Every get, set and delete of the cache fails.
NextCacheDown ==
    \E p \in Procs :
        \/ \E c \in CacheDownRequests : HttpRequest(p, c)
        \/ GetWalletCacheFault(p)
        \/ GetWalletDB(p)
        \/ GetWalletSetFault(p)
        \/ HandlerCheck(p)
        \/ GetTransactionsCacheFault(p)
        \/ GetTransactionsDB(p)
        \/ GetTransactionsSetFault(p)
        \/ DepositLock(p)
        \/ DepositUpdate(p)
        \/ DepositCreate(p)
        \/ DepositCommit(p)
        \/ TransferLockFrom(p)
        \/ TransferLockTo(p)
        \/ TransferUpdateFrom(p)
        \/ TransferUpdateTo(p)
        \/ TransferCreateFrom(p)
        \/ TransferCreateTo(p)
        \/ TransferCommit(p)
        \/ InvalidationFault(p)
        \/ StorageFault(p)

SpecCacheDown == InitCacheDown /\ [][NextCacheDown]_vars

(* ------------------- the order of a wallet's history ------------------- *)

\* The clock reaches the next value the created_at column can hold; it does
\* so at most once for each request received.
Tick ==
    /\ now < calls
    /\ now' = now + 1
    /\ UNCHANGED <<wallets, transactions, lock, cache, pc, op, amt, rd, buf,
                   result, callId, calls, firstLocks, applied, given, reads,
                   expired>>

\* The owner's requests on wallet 1: Deposits of 0.01 and the first page of
\* the history.
OrderRequests ==
    {Call("deposit", 1, 0, 0, Dec(10), 1), GetTransactionsCall(1, 1, 10, 0)}

NextOrder ==
    \/ \E p \in Procs :
        \/ \E c \in OrderRequests : HttpRequest(p, c)
        \/ GetWalletCache(p)
        \/ GetWalletDB(p)
        \/ GetWalletSet(p)
        \/ HandlerCheck(p)
        \/ GetTransactionsCache(p)
        \/ GetTransactionsDB(p)
        \/ GetTransactionsSet(p)
        \/ DepositLock(p)
        \/ DepositUpdate(p)
        \/ DepositCreate(p)
        \/ DepositCommit(p)
        \/ DepositInvalidate(p)
    \/ Tick

\* Wallet 1 starts with one record, created at time 0.
SpecOrder == InitPages /\ [][NextOrder]_vars

(* --------------- the account's entries in the cache ------------------- *)

\* "user:id:%d" and "user:username:%s" (the account's name stands for its
\* id: one name for each account).
UserIDKey(u) == <<"user", "id", u>>
UsernameKey(u) == <<"user", "username", u>>

\* authService.cacheUser, at Register and Login: the user is stored under
\* both keys for 10 minutes.
cacheUser(u) ==
    /\ cache' = Set(Set(cache, UsernameKey(u),
                        Entry(Encoded([id |-> u]), UserTTL, <<u>>)),
                    UserIDKey(u),
                    Entry(Encoded([id |-> u]), UserTTL, <<u>>))
    /\ UNCHANGED <<wallets, transactions, lock, pc, op, amt, rd, buf, result,
                   callId, calls, firstLocks, applied, history>>

\* No call is running.
Quiet == \A p \in Procs : pc[p] = "idle"

\* CreateWallet calls, with Register and Login between them: what the cache
\* holds for an account when a call returns was stored before that call.
NextAccounts ==
    \/ \E p \in Procs :
        \/ \E u \in UserIDs : Admit(p) /\ CreateWalletCall(p, u)
        \/ CreateWalletInsert(p)
        \/ CreateWalletInvalidate(p)
        \/ StorageFault(p)
    \/ \E u \in Users : Quiet /\ cacheUser(u)
    \/ \E k \in DOMAIN cache : Expire(k)

SpecAccounts == Init /\ [][NextAccounts]_vars

(* ------------- the cache after the last mutation: expiry --------------- *)

\* GET /wallets/1 by the wallet's owner; any number of them is received.
GetWalletRequests == {Call("get_wallet", 1, 0, 0, Dec(0), 1)}

\* The handler receives the GetWallet request c and calls
\* walletService.GetWallet.
GetWalletRequest(p, c) ==
    /\ pc[p] = "idle"
    /\ Enter(p, c, Zero64, "g_cache")
    /\ reads' = [reads EXCEPT !.start =
                    (p :> Len(RecordsOf(Target(c)))) @@ @]
    /\ UNCHANGED <<calls, given, expired, now>>

\* The wallet keys of the cache.
WalletKeys == {WalletKey(w) : w \in WalletIDs}

\* At most MaxCalls mutations (a Deposit of 0.01 on wallet 1, a Transfer of
\* 0.01 from wallet 1 to wallet 2) and GetWallet requests without end.
NextHeal ==
    \/ \E p \in Procs :
        \/ \E c \in GetWalletRequests : GetWalletRequest(p, c)
        \/ GetWalletCache(p)
        \/ GetWalletDB(p)
        \/ GetWalletSet(p)
        \/ HandlerCheck(p)
        \/ Admit(p) /\ DepositCall(p, 1, Dec(10))
        \/ DepositLock(p)
        \/ DepositUpdate(p)
        \/ DepositCreate(p)
        \/ DepositCommit(p)
        \/ DepositInvalidate(p)
        \/ Admit(p) /\ TransferCall(p, 1, 2, Dec(10))
        \/ TransferLockFrom(p)
        \/ TransferLockTo(p)
        \/ TransferUpdateFrom(p)
        \/ TransferUpdateTo(p)
        \/ TransferCreateFrom(p)
        \/ TransferCreateTo(p)
        \/ TransferCommit(p)
        \/ TransferInvalidate(p)
    \/ \E k \in DOMAIN cache : Expire(k)

\* redis removes a key when its time to live has run out: an entry with a
\* time to live does not stay for ever.
SpecHeal ==
    /\ InitPages
    /\ [][NextHeal]_vars
    /\ \A k \in WalletKeys : WF_vars(Expire(k))

(* ---------------- row locks and the end of a lock wait ----------------- *)

\* p's call takes its next step: the goroutine of a request runs on until
\* the call returns, unless a locking read makes it wait.
Runs(p) ==
    \/ DepositLock(p)
    \/ DepositUpdate(p)
    \/ DepositCreate(p)
    \/ DepositCommit(p)
    \/ DepositInvalidate(p)
    \/ TransferLockFrom(p)
    \/ TransferLockTo(p)
    \/ TransferUpdateFrom(p)
    \/ TransferUpdateTo(p)
    \/ TransferCreateFrom(p)
    \/ TransferCreateTo(p)
    \/ TransferCommit(p)
    \/ TransferInvalidate(p)

\* p waits for a row held by a transaction that waits for a row p holds.
InDeadlock(p) ==
    /\ WaitsForLock(p)
    /\ WaitsForLock(lock[Wanted(p)])
    /\ lock[Wanted(lock[Wanted(p)])] = p

\* The store detects the cycle of waits and fails the locking read of one
\* of the transactions in it (Error 1213); db.Transaction rolls that one
\* back.
DeadlockVictim(p) == InDeadlock(p) /\ StorageFault(p)

\* Deposits and Transfers of 0.01 dollars between the wallets 1 and 2 and
\* the absent wallet 3, with storage faults.
NextLocks ==
    \E p \in Procs :
        \/ \E w \in WalletIDs : Admit(p) /\ DepositCall(p, w, Dec(10))
        \/ \E f \in WalletIDs, t \in WalletIDs :
              Admit(p) /\ TransferCall(p, f, t, Dec(10))
        \/ Runs(p)
        \/ StorageFault(p)

\* A call that can take a step takes it, and a cycle of lock waits is
\* broken by the store; a fault happens or not.
SpecLocks ==
    /\ Init
    /\ [][NextLocks]_vars
    /\ \A p \in Procs : WF_vars(Runs(p)) /\ WF_vars(DeadlockVictim(p))

(* -------------- the conversion there and back at the boundary ---------- *)

\* The minor-unit counts converted: 1 .. MaxMinorUnits (up to 0.30 dollars).
MaxMinorUnits == 30

\* float64(minorUnits) / 100.0: the quotient is rounded to the nearest
\* float64, which is the float64 nearest to the decimal minorUnits/100.
MinorUnitsToDollars(minorUnits) == Dec(10 * minorUnits)

\* Three Deposits on the empty wallet 1 of the amount that
\* MinorUnitsToDollars gives for a count of minor units.
InitRoundTrip ==
    /\ wallets = (1 :> [user_id |-> 1, balance |-> Zero64])
                 @@ (2 :> [user_id |-> 2, balance |-> Zero64])
    /\ transactions = <<>>
    /\ lock = [w \in WalletIDs |-> NoProc]
    /\ cache = EmptyFn
    /\ pc = [p \in DepositProcs |-> "idle"]
    /\ op = [p \in DepositProcs |-> NoOp]
    /\ amt = [p \in DepositProcs |-> Zero64]
    /\ rd = [p \in DepositProcs |-> EmptyFn]
    /\ buf = [p \in DepositProcs |-> EmptyBuf]
    /\ result = [p \in DepositProcs |-> NoResult]
    /\ callId = [p \in DepositProcs |-> 0]
    /\ calls = 0
    /\ firstLocks = {}
    /\ applied = {}
    /\ \E n \in 1..MaxMinorUnits :
          given = Call("deposit", 1, 0, 0, MinorUnitsToDollars(n), 0)
    /\ reads = NoReads
    /\ expired = {}
    /\ now = 0

SpecRoundTrip == InitRoundTrip /\ [][NextDeposits]_vars

(* --------- a sequence of mutations over a cache of any content --------- *)

\* Wallet 1 holds 0.02 dollars, wallet 2 nothing. The cache holds nothing,
\* or the row of wallet 1 as stored, or a value that does not decode, or a
\* row and a page of wallet 1 that are not those of storage, or a row of
\* wallet 2 with a balance it does not have. The calls to come are fixed:
\* each a Deposit of 0.01 on wallet 1 or on the absent wallet 3, a Transfer
\* of 0.02 from wallet 1 to wallet 2, or a Transfer of 0.01 from wallet 2 to
\* wallet 1.
InitCacheBlind ==
    /\ wallets = (1 :> [user_id |-> 1, balance |-> Cents(2)])
                 @@ (2 :> [user_id |-> 2, balance |-> Zero64])
    /\ transactions = SeedRecords(Cents(2), Zero64)
    /\ lock = [w \in WalletIDs |-> NoProc]
    /\ cache \in WarmCaches \cup
                  {LeftInCache,
                   Set(EmptyFn, WalletKey(2),
                       Entry(Encoded([user_id |-> 2, balance |-> Cents(9)]),
                             WalletTTL, <<2>>))}
    /\ pc = [p \in Procs |-> "idle"]
    /\ op = [p \in Procs |-> NoOp]
    /\ amt = [p \in Procs |-> Zero64]
    /\ rd = [p \in Procs |-> EmptyFn]
    /\ buf = [p \in Procs |-> EmptyBuf]
    /\ result = [p \in Procs |-> NoResult]
    /\ callId = [p \in Procs |-> 0]
    /\ calls = 0
    /\ firstLocks = {}
    /\ applied = {}
    /\ given \in [1..MaxCalls ->
                    {Call("deposit", 1, 0, 0, Dec(10), 0),
                     Call("deposit", 3, 0, 0, Dec(10), 0),
                     Call("transfer", 0, 1, 2, Dec(20), 0),
                     Call("transfer", 0, 2, 1, Dec(10), 0)}]
    /\ reads = NoReads
    /\ expired = {}
    /\ now = 0

\* The caller makes the next of the given calls.
GivenCall(p) ==
    /\ calls < Len(given)
    /\ LET c == given[calls + 1] IN
          IF c.name = "deposit"
          THEN DepositCall(p, c.walletID, c.amount)
          ELSE TransferCall(p, c.fromWalletID, c.toWalletID, c.amount)

\* One caller makes the given calls one after the other; keys expire.
NextCacheBlind ==
    \/ GivenCall("p1")
    \/ Runs("p1")
    \/ \E k \in DOMAIN cache : Expire(k)

SpecCacheBlind == InitCacheBlind /\ [][NextCacheBlind]_vars

(* ------------- the keys an invalidation leaves in the cache ------------ *)

\* The row of wallet w as GetWallet stores it, and the page that
\* GetTransactions(w, limit, offset) stores.
RowEntry(w) == Entry(Encoded(wallets[w]), WalletTTL, <<w>>)
PageEntry(w, limit, offset) ==
    Entry(Encoded(CHOOSE page \in GetByWalletID(w, limit, offset) : TRUE),
          TransactionsTTL, <<w, limit, offset>>)

\* Wallets 1, 2 and 10 exist (wallet 1 with 0.02 dollars from one deposit);
\* earlier reads have cached the row and pages of each.
InitFrame ==
    /\ wallets = (1 :> [user_id |-> 1, balance |-> Cents(2)])
                 @@ (2 :> [user_id |-> 2, balance |-> Zero64])
                 @@ (10 :> [user_id |-> 1, balance |-> Zero64])
    /\ transactions = SeedRecords(Cents(2), Zero64)
    /\ lock = [w \in WalletIDs |-> NoProc]
    /\ cache = [k \in {WalletKey(1), WalletKey(2), WalletKey(10),
                       TransactionsKey(1, 10, 0), TransactionsKey(1, 1, 1),
                       TransactionsKey(2, 10, 0), TransactionsKey(10, 10, 0),
                       TransactionsKey(10, 1, 0)} |->
                  IF Len(k) = 2 THEN RowEntry(k[2])
                  ELSE PageEntry(k[2], k[4], k[5])]
    /\ pc = [p \in Procs |-> "idle"]
    /\ op = [p \in Procs |-> NoOp]
    /\ amt = [p \in Procs |-> Zero64]
    /\ rd = [p \in Procs |-> EmptyFn]
    /\ buf = [p \in Procs |-> EmptyBuf]
    /\ result = [p \in Procs |-> NoResult]
    /\ callId = [p \in Procs |-> 0]
    /\ calls = 0
    /\ firstLocks = {}
    /\ applied = {}
    /\ given = NoOp
    /\ reads = NoReads
    /\ expired = {}
    /\ now = 0

\* Deposits of 0.01 dollars on wallet 1 or 2 and Transfers of 0.01 dollars
\* between them; wallet 10 is left alone.
NextFrame ==
    \E p \in Procs :
        \/ \E w \in {1, 2} : Admit(p) /\ DepositCall(p, w, Dec(10))
        \/ \E f \in {1, 2}, t \in {1, 2} :
              Admit(p) /\ TransferCall(p, f, t, Dec(10))
        \/ Runs(p)

SpecFrame == InitFrame /\ [][NextFrame]_vars

(* ============================ properties ============================== *)

\* p's Deposit (Transfer) commits in this step.
DepositCommits(p) == pc[p] = "d_commit" /\ pc'[p] = "d_inval"
TransferCommits(p) == pc[p] = "t_commit" /\ pc'[p] = "t_inval"

\* C1: in every reachable state every wallet's stored balance is greater
\* than or equal to zero.
C1_BalanceNonNegative ==
    \A w \in DOMAIN wallets : ~Lt64(wallets[w].balance, Zero64)

\* C2: every record written by Deposit or Transfer satisfies
\* balance_after = balance_before + amount (as numbers).
C2_RecordArithmetic ==
    \A i \in 1..Len(transactions) :
        transactions[i].balance_after
            = MathAdd(transactions[i].balance_before, transactions[i].amount)

\* C3: a successful Deposit of amount a on a wallet whose balance is b sets
\* the balance to b + a and appends exactly one record, for that wallet, of
\* kind deposit with amount a, balance_before b and balance_after b + a.
C3_DepositEffect ==
    [][\A p \in Procs : DepositCommits(p) =>
          LET w == op[p].walletID
              b == wallets[w].balance
              a == ExactMinorUnits(op[p].amount)
              n == Len(transactions)
          IN  /\ IsWholeMinorUnits(op[p].amount)
              /\ wallets'[w].balance = MathAdd(b, a)
              /\ Len(transactions') = n + 1
              /\ SubSeq(transactions', 1, n) = transactions
              /\ transactions'[n + 1].wallet_id = w
              /\ transactions'[n + 1].type = TransactionTypeDeposit
              /\ transactions'[n + 1].amount = a
              /\ transactions'[n + 1].balance_before = b
              /\ transactions'[n + 1].balance_after = MathAdd(b, a)]_vars

\* C4: a successful Transfer of amount a from wallet F (balance f >= a) to
\* wallet T (balance t) leaves F with f - a and T with t + a, and writes two
\* records with amounts -a and +a.
C4_TransferEffect ==
    [][\A p \in Procs : TransferCommits(p) =>
          LET f == op[p].fromWalletID
              t == op[p].toWalletID
              a == ExactMinorUnits(op[p].amount)
              n == Len(transactions)
          IN  /\ IsWholeMinorUnits(op[p].amount)
              /\ wallets'[f].balance
                    = MathAdd(wallets[f].balance, MathNeg(a))
              /\ wallets'[t].balance = MathAdd(wallets[t].balance, a)
              /\ Len(transactions') = n + 2
              /\ SubSeq(transactions', 1, n) = transactions
              /\ transactions'[n + 1].wallet_id = f
              /\ transactions'[n + 1].amount = MathNeg(a)
              /\ transactions'[n + 2].wallet_id = t
              /\ transactions'[n + 2].amount = a]_vars

\* What call number c left in the committed store: the wallets whose balance
\* it wrote and the positions of its records.
BalancesWrittenBy(c) == {w \in WalletIDs : \E n \in {"deposit", "transfer"} :
                            <<c, n, w>> \in applied}
RecordsWrittenBy(c) ==
    {i \in 1..Len(transactions) : transactions[i].uuid[1] = c}
IsTransferCall(c) ==
    \/ \E w \in WalletIDs : <<c, "transfer", w>> \in applied
    \/ \E i \in RecordsWrittenBy(c) :
          transactions[i].type = TransactionTypeTransfer

\* C5: Transfer is atomic: in every committed storage state, for each
\* Transfer call either both balance updates and both records are present
\* (the debit on the source, the credit on the destination) or none of the
\* four is, also when a storage fault occurs between the writes.
C5_TransferAtomic ==
    \A c \in 1..calls :
        IsTransferCall(c) =>
            \E f \in WalletIDs, t \in WalletIDs, i \in RecordsWrittenBy(c),
               j \in RecordsWrittenBy(c) :
                /\ f # t
                /\ i < j
                /\ BalancesWrittenBy(c) = {f, t}
                /\ RecordsWrittenBy(c) = {i, j}
                /\ transactions[i].wallet_id = f
                /\ transactions[j].wallet_id = t
                /\ transactions[i].amount = Neg64(transactions[j].amount)
                /\ \A k \in {i, j} :
                      /\ transactions[k].type = TransactionTypeTransfer
                      /\ transactions[k].from_wallet_id = f
                      /\ transactions[k].to_wallet_id = t

\* One Transfer has committed all four writes while another has written the
\* source balance inside its transaction and not yet the destination's.
C5_CommittedAndHalfWritten ==
    /\ \E c \in 1..calls : Cardinality(RecordsWrittenBy(c)) = 2
    /\ \E p \in Procs :
          /\ pc[p] = "t_update_to"
          /\ DOMAIN buf[p].bal = {op[p].fromWalletID}

\* p's call returns an error in this step.
ReturnsError(p) ==
    \/ /\ pc[p] # "idle"
       /\ pc'[p] = "idle"
       /\ result'[p].status # "ok"
    \/ /\ calls' = calls + 1
       /\ pc'[p] = "idle"
       /\ pc[p] = "idle"
       /\ result'[p].status \notin {"ok", "none"}

\* C6: whenever Deposit or Transfer returns an error (invalid amount,
\* self-transfer, wallet not found, insufficient funds, a storage fault at
\* any step), the balances and the records are what they were: the step that
\* returns the error changes nothing, and nothing of the failed call is in
\* the store.
C6_FailureLeavesStoreUnchanged ==
    [][\A p \in Procs : ReturnsError(p) =>
          /\ wallets' = wallets
          /\ transactions' = transactions
          /\ applied' = applied
          /\ callId[p] # 0 =>
                /\ BalancesWrittenBy(callId[p]) = {}
                /\ RecordsWrittenBy(callId[p]) = {}]_vars

\* A call has failed on a storage fault and another on insufficient funds,
\* next to a call that committed.
C6_FailuresSeen ==
    \E p \in Procs, q \in Procs :
        /\ result[p].status = "StorageFailure"
        /\ result[q].status = "InsufficientFunds"

\* C7: N = 3 concurrent Deposits of a on wallet 1, initially zero, all
\* returned successfully: the balance is 3 * a and wallet 1 has 3 records.
C7_ConcurrentDeposits ==
    (\A p \in DepositProcs : pc[p] = "idle" /\ result[p].status = "ok") =>
        LET a == ExactMinorUnits(given.amount) IN
        /\ IsWholeMinorUnits(given.amount)
        /\ wallets[1].balance = MathAdd(MathAdd(a, a), a)
        /\ Len(RecordsOf(1)) = 3

\* The records of wallet w form a chain that starts at 0 and ends at the
\* stored balance.
Chained(w) ==
    LET rs == RecordsOf(w) IN
    IF rs = <<>>
    THEN wallets[w].balance = Zero64
    ELSE /\ rs[1].balance_before = Zero64
         /\ \A i \in 2..Len(rs) :
               rs[i].balance_before = rs[i - 1].balance_after
         /\ wallets[w].balance = rs[Len(rs)].balance_after

\* C8: no lost updates: for every wallet, its records in commit order form
\* a chain (first balance_before 0, each balance_before the previous
\* balance_after) whose last balance_after is the stored balance, 0 when
\* the wallet has no record.
C8_BalanceChain == \A w \in DOMAIN wallets : Chained(w)

\* A wallet has three records, a transfer's among them.
C8_ThreeRecords ==
    \E w \in DOMAIN wallets :
        /\ Len(RecordsOf(w)) >= 3
        /\ \E i \in 1..Len(RecordsOf(w)) :
              RecordsOf(w)[i].type = TransactionTypeTransfer

\* p holds the row lock of its source wallet and waits for its destination
\* wallet's, which q holds; p's funds suffice.
WaitsFor(p, q) ==
    /\ pc[p] = "t_lock_to"
    /\ lock[op[p].fromWalletID] = p
    /\ op[p].toWalletID \in DOMAIN wallets
    /\ lock[op[p].toWalletID] = q
    /\ SufficientBalance(rd[p][op[p].fromWalletID], amt[p])

\* C9: deadlock freedom: no reachable state has two Transfers, A to B and
\* B to A, both with sufficient funds, each holding one wallet's row lock
\* while waiting for the other's.
C9_NoMutualWait ==
    \A p \in Procs, q \in Procs : ~(p # q /\ WaitsFor(p, q) /\ WaitsFor(q, p))

\* C10: Transfer(A, B, ...) and Transfer(B, A, ...) lock the same wallet
\* first: the first lock depends on the pair of wallets only.
C10_SameFirstLock ==
    \A x \in firstLocks, y \in firstLocks :
        {x[1], x[2]} = {y[1], y[2]} => x[3] = y[3]

\* balance < amount as numbers, the amount being 100 * dollars minor units
\* (n / 10 for Dec(n), 25 * 2^(e - 55) * 2^57 for Pow2(e), e >= 55).
LessThanAmount(balance, dollars) ==
    IF dollars.tag = "dec"
    THEN balance.hi < 0 \/ (balance.hi = 0 /\ balance.lo * 10 < dollars.n)
    ELSE Lt64(balance, I64(25 * 2^(dollars.n - 55), 0))

\* p's Transfer passes the balance check in this step.
PassesBalanceCheck(p) == pc[p] = "t_lock_to" /\ pc'[p] = "t_update_from"

\* p's Transfer returns with the outcome kind in this step.
TransferReturns(p, kind) ==
    /\ pc[p] \in {"t_lock_from", "t_lock_to"}
    /\ pc'[p] = "idle"
    /\ result'[p].status = kind

\* C11: a Transfer whose source balance, read under the row lock, is less
\* than the amount fails with InsufficientFunds and leaves balances and
\* records unchanged; no Transfer passes the check or commits on a source
\* balance that does not cover its amount, also among concurrent Transfers
\* out of one source.
C11_InsufficientFunds ==
    [][\A p \in Procs :
          LET f == op[p].fromWalletID IN
          /\ PassesBalanceCheck(p) =>
                ~LessThanAmount(rd[p][f], op[p].amount)
          /\ TransferReturns(p, "InsufficientFunds") =>
                /\ LessThanAmount(rd[p][f], op[p].amount)
                /\ UNCHANGED <<wallets, transactions>>
          /\ TransferCommits(p) =>
                /\ ~LessThanAmount(wallets[f].balance, op[p].amount)
                /\ wallets[f].balance = rd[p][f]]_vars

\* The record at position i is the debit of a Transfer and the record at j
\* its credit.
IsTransferPair(i, j) ==
    LET d == transactions[i]
        c == transactions[j]
    IN  /\ d.type = TransactionTypeTransfer
        /\ c.type = TransactionTypeTransfer
        /\ d.wallet_id = d.from_wallet_id
        /\ c.wallet_id = c.to_wallet_id
        /\ d.from_wallet_id = c.from_wallet_id
        /\ d.to_wallet_id = c.to_wallet_id
        /\ d.from_wallet_id # d.to_wallet_id
        /\ MathAdd(d.amount, c.amount) = Zero64

\* C12: every completed Transfer produced exactly two records, one on the
\* source and one on the destination, whose amounts sum to zero, with the
\* same from/to pair, and every record's identifier is its own.
C12_TransferRecordPair ==
    /\ \A c \in 1..calls :
          IsTransferCall(c) =>
              \E i \in RecordsWrittenBy(c), j \in RecordsWrittenBy(c) :
                  /\ RecordsWrittenBy(c) = {i, j}
                  /\ i # j
                  /\ IsTransferPair(i, j)
    /\ \A i \in 1..Len(transactions), j \in 1..Len(transactions) :
          i # j => transactions[i].uuid # transactions[j].uuid

\* The step touches neither the store, nor a lock, nor the cache, and no
\* caller is in a storage transaction after it that was not before.
NoStorageAccess ==
    UNCHANGED <<wallets, transactions, applied, lock, cache, pc, buf, rd,
                firstLocks>>

\* The amount, as a number, is at most zero.
AtMostZero(dollars) == dollars.tag = "dec" /\ dollars.n <= 0

InvalidAmount == Err("InvalidAmount", "amount must be positive")
InvalidTransfer == Err("InvalidTransfer", "cannot transfer to the same wallet")

\* C13: Deposit with an amount <= 0 fails with InvalidAmount before any
\* storage access: no transaction is opened, no lock taken, no record
\* written, no cache entry touched.
C13_DepositInvalidAmount ==
    [][\A p \in Procs, w \in WalletIDs, d \in Amounts :
          (AtMostZero(d) /\ DepositCall(p, w, d)) =>
              /\ result'[p] = For("deposit", InvalidAmount)
              /\ NoStorageAccess]_vars

\* A Deposit was rejected for its amount after another call had committed.
C13_DepositRejected ==
    /\ \E p \in Procs : result[p] = For("deposit", InvalidAmount)
    /\ applied # {}

\* C14: Transfer with a non-positive amount fails with InvalidAmount and
\* Transfer of a positive amount with from = to fails with InvalidTransfer,
\* both without opening a storage transaction or changing a balance, a
\* record or a cache entry.
C14_TransferInvalid ==
    [][\A p \in Procs, f \in WalletIDs, t \in WalletIDs, d \in Amounts :
          /\ (AtMostZero(d) /\ TransferCall(p, f, t, d)) =>
                /\ result'[p] = For("transfer", InvalidAmount)
                /\ NoStorageAccess
          /\ (~AtMostZero(d) /\ f = t /\ TransferCall(p, f, t, d)) =>
                /\ result'[p] = For("transfer", InvalidTransfer)
                /\ NoStorageAccess]_vars

\* One Transfer was rejected for its amount and one for its wallets.
C14_TransfersRejected ==
    \E p \in Procs, q \in Procs :
        /\ result[p] = For("transfer", InvalidAmount)
        /\ result[q] = For("transfer", InvalidTransfer)

DepositNotFound == Err("WalletNotFound", "record not found")
SourceNotFound == Err("WalletNotFound", "source wallet not found")
DestinationNotFound == Err("WalletNotFound", "destination wallet not found")

\* p's statement at position l completes in this step without a storage
\* fault.
Completes(p, l) ==
    /\ pc[p] = l
    /\ pc'[p] # l
    /\ result'[p].status # "StorageFailure"

\* C15: Deposit on a wallet id absent from storage returns WalletNotFound;
\* Transfer returns WalletNotFound with a message naming the source or the
\* destination, whichever is absent; nothing is mutated and the caller
\* holds no row lock afterwards.
C15_WalletNotFound ==
    [][\A p \in Procs :
          /\ Completes(p, "d_lock") =>
                (op[p].walletID \notin DOMAIN wallets
                    <=> result'[p] = For("deposit", DepositNotFound))
          /\ Completes(p, "t_lock_from") =>
                (op[p].fromWalletID \notin DOMAIN wallets
                    <=> result'[p] = For("transfer", SourceNotFound))
          /\ Completes(p, "t_lock_to") =>
                (op[p].toWalletID \notin DOMAIN wallets
                    <=> result'[p] = For("transfer", DestinationNotFound))
          /\ (pc[p] # "idle" /\ pc'[p] = "idle"
                /\ result'[p].status = "WalletNotFound") =>
                /\ UNCHANGED <<wallets, transactions, applied>>
                /\ \A w \in WalletIDs : lock'[w] # p]_vars

\* A Transfer found its destination missing (its source was locked by
\* then) and a Deposit found its wallet missing.
C15_NotFoundSeen ==
    \E p \in Procs, q \in Procs :
        /\ result[p] = For("transfer", DestinationNotFound)
        /\ result[q] = For("deposit", DepositNotFound)

AccountNotFound == Err("AccountNotFound", "user not found")

\* p's CreateWallet inserts its row in this step.
CreateWalletInserts(p) == pc[p] = "c_create" /\ pc'[p] = "c_inval"

\* C19: CreateWallet(account_id) for an existing account creates exactly
\* one new wallet, with balance zero, owned by account_id, and returns it;
\* for an account that does not exist it signals AccountNotFound and
\* creates no wallet.
C19_CreateWallet ==
    [][\A p \in Procs :
          /\ CreateWalletInserts(p) =>
                \E w \in WalletIDs \ DOMAIN wallets :
                    /\ DOMAIN wallets' = DOMAIN wallets \cup {w}
                    /\ wallets'[w].balance = Zero64
                    /\ wallets'[w].user_id = op[p].userID
                    /\ op[p].userID \in Users
                    /\ op'[p].walletID = w
                    /\ \A v \in DOMAIN wallets : wallets'[v] = wallets[v]
          /\ (pc[p] = "c_inval" /\ pc'[p] = "idle") =>
                /\ result'[p] = For("create_wallet", OkWallet(op[p].walletID))
                /\ wallets' = wallets
          /\ \A u \in UserIDs \ Users :
                CreateWalletCall(p, u) =>
                    /\ result'[p] = For("create_wallet", AccountNotFound)
                    /\ wallets' = wallets
                    /\ pc' = pc]_vars

\* One CreateWallet returned the new wallet 3 and one was refused for its
\* account.
C19_CreatedAndRefused ==
    \E p \in Procs, q \in Procs :
        /\ result[p] = For("create_wallet", OkWallet(3))
        /\ 3 \in DOMAIN wallets
        /\ result[q] = For("create_wallet", AccountNotFound)

\* p's request is in the handler's lookup or ownership check.
InLookup(p) == pc[p] \in {"g_cache", "g_db", "g_set", "h_check"}

\* C16: GetWallet on an id absent from storage fails with WalletNotFound
\* and the handler answers 404, never 403, whichever user asks: the lookup
\* of an absent wallet never gets as far as the ownership check.
C16_AbsentWalletIs404 ==
    [][\A p \in Procs :
          (InLookup(p) /\ Target(op[p]) \notin DOMAIN wallets) =>
              /\ pc'[p] \in {pc[p], "g_db", "idle"}
              /\ pc[p] \in {"g_cache", "g_db"}
              /\ pc'[p] = "idle" =>
                    result'[p] = For(op[p].name, NotFound404)]_vars

\* Both users asked for the absent wallet 3 and both were answered 404.
C16_BothUsersGot404 ==
    /\ \A p \in Procs : result[p] = For("get_wallet", NotFound404)
    /\ calls >= 2
    /\ 3 \notin DOMAIN wallets

\* p's GetWallet returns a wallet row in this step.
GetWalletReturned(p) == pc[p] \in {"g_cache", "g_set"} /\ pc'[p] = "h_check"

\* C17: repeated GetWallet calls on a wallet with no Deposit or Transfer on
\* it committing between them (from the start of the earlier call to the
\* return of the later) return identical balances, whether served from the
\* cache, from storage after a miss, or from storage after the entry's TTL
\* expired.
C17_ReadsIdempotent ==
    [][\A p \in Procs :
          LET w == Target(op[p])
              n == Len(RecordsOf(w))
          IN  (GetWalletReturned(p)
                 /\ reads.start[p] = n
                 /\ reads.last[w].since = n) =>
                  rd'[p][w].balance = reads.last[w].balance]_vars

\* C18: a user acts only on wallets they own: a request of another user
\* (Deposit on the wallet, Transfer out of it, GetWallet, GetTransactions)
\* is answered 403 and changes no balance and writes no record; only the
\* owner's request reaches the engine's operation or is answered with the
\* wallet.
C18_OwnerOnly ==
    [][\A p \in Procs :
          LET c == op[p]
              w == Target(c)
          IN  pc[p] = "h_check" =>
                /\ w \in DOMAIN wallets
                /\ wallets[w].user_id # c.userID =>
                      /\ pc'[p] \in {"h_check", "idle"}
                      /\ pc'[p] = "idle" =>
                            /\ result'[p] = For(c.name, Forbidden403)
                            /\ UNCHANGED <<wallets, transactions, applied>>
                      /\ \A i \in 1..Len(transactions') :
                            transactions'[i].uuid[1] # callId[p]]_vars

\* Another user's Deposit on wallet 1 and another user's Transfer out of it
\* were both answered 403.
C18_ForbiddenSeen ==
    \E p \in Procs, q \in Procs :
        /\ result[p] = For("deposit", Forbidden403)
        /\ result[q] = For("transfer", Forbidden403)

(* C20: when the caller's deadline expires (or the call is cancelled) while
   Deposit or Transfer waits for a row lock, the pending transaction is
   aborted with full rollback, no balance and no record changes, and the
   call returns a timeout/cancellation outcome that is none of the
   business-rule failures: the next step of a call whose deadline expired
   during its lock wait is that return. *)
TimedOut(r) == r.status \in {"Cancelled", "DeadlineExceeded"}

C20_DeadlineAbortsLockWait ==
    [][\A p \in Procs :
          (callId[p] \in expired /\ pc'[p] # pc[p]) =>
              /\ pc'[p] = "idle"
              /\ TimedOut(result'[p])
              /\ wallets' = wallets
              /\ transactions' = transactions]_vars

\* A call whose deadline expired during its lock wait commits its writes.
CommitsAfterDeadline ==
    \E t \in applied : t[1] \in expired

\* a is the negation of the amount of dollars, counted in minor units.
NegatedAmount(a, dollars) ==
    IF dollars.tag = "dec"
    THEN a.hi = 0 /\ a.lo * 10 = -dollars.n
    ELSE a = I64(-25 * 2^(dollars.n - 55), 0)

\* p's Transfer returns its record in this step.
TransferReturnsRecord(p) ==
    pc[p] = "t_inval" /\ pc'[p] = "idle" /\ result'[p].status = "ok"

\* C21: Transfer returns the debit-side record: the returned record's
\* wallet is the source wallet, its amount is the negated transfer amount,
\* and its balance_before and balance_after are the source wallet's
\* balances before and after the transfer.
C21_ReturnsDebitRecord ==
    [][\A p \in Procs :
          TransferReturnsRecord(p) =>
              LET r == result'[p].tx[1]
                  f == op[p].fromWalletID
              IN  /\ r.wallet_id = f
                  /\ r.type = TransactionTypeTransfer
                  /\ NegatedAmount(r.amount, op[p].amount)
                  /\ r.balance_before = rd[p][f]
                  /\ r.balance_after = MathAdd(r.balance_before, r.amount)
                  /\ r.balance_after = buf[p].bal[f]]_vars

\* s is an initial segment of t.
IsPrefix(s, t) == Len(s) <= Len(t) /\ SubSeq(t, 1, Len(s)) = s

\* C22: transaction records are write-once: once a record is committed, no
\* step of Deposit, Transfer or CreateWallet (commit, rollback, storage
\* fault, invalidation) changes any of its fields or removes it; the
\* committed records only grow.
C22_RecordsWriteOnce ==
    [][IsPrefix(transactions, transactions')]_vars

\* Two calls have committed records, the second after the first's were
\* in the table.
C22_TwoCallsCommitted ==
    \E i \in 1..Len(transactions), j \in 1..Len(transactions) :
        /\ i < j
        /\ transactions[i].uuid[1] > 0
        /\ transactions[j].uuid[1] > transactions[i].uuid[1]

\* The positions at which a call's next statement is a cache operation.
CachePcs ==
    {"g_cache", "g_set", "gt_cache", "gt_set", "d_inval", "t_inval",
     "c_inval"}

\* The positions of Deposit and Transfer.
MutationPcs ==
    {"d_lock", "d_update", "d_create", "d_commit", "d_inval",
     "t_lock_from", "t_lock_to", "t_update_from", "t_update_to",
     "t_create_from", "t_create_to", "t_commit", "t_inval"}

\* The wallets whose balance the call c changes.
Mutated(c) ==
    IF c.name = "deposit" THEN {c.walletID}
    ELSE IF c.name = "transfer" THEN {c.fromWalletID, c.toWalletID}
    ELSE {}

\* The keys of the cache that belong to wallet w: its row and the pages of
\* its history.
KeysOf(w) ==
    {k \in DOMAIN cache :
        k[1] = "wallet" /\ k[2] = w
          /\ (Len(k) = 2 \/ (Len(k) = 5 /\ k[3] = "transactions"))}

HoldsLock(p) == \E w \in WalletIDs : lock[w] = p

\* p's transaction has committed: its balances and records are stored.
HasCommitted(p) ==
    /\ \A w \in Mutated(op[p]) : <<callId[p], op[p].name, w>> \in applied
    /\ \A i \in 1..Len(buf[p].recs) :
          \E j \in 1..Len(transactions) : transactions[j] = buf[p].recs[i]

\* p's Deposit or Transfer returns in this step, with an error or not.
MutationReturns(p) == pc[p] \in MutationPcs /\ pc'[p] = "idle"

\* A step that deletes from the cache or stores in it is the step of a
\* caller at a cache operation, or the expiry of one key.
CacheChangedBy(p) == pc[p] \in CachePcs /\ pc'[p] # pc[p]

(* C23: every successful Deposit and Transfer deletes the cached wallet
   entry and all cached history pages of each wallet it mutated, and only
   after its storage transaction has committed; no cache read, write or
   delete is performed while the call holds a wallet row lock; a failed call
   performs no invalidation. *)
C23_InvalidateAfterCommit ==
    [][/\ \A p \in Procs :
            /\ pc[p] \in CachePcs => ~HoldsLock(p)
            /\ (MutationReturns(p) /\ result'[p].status = "ok") =>
                  /\ pc[p] \in {"d_inval", "t_inval"}
                  /\ HasCommitted(p)
                  /\ \A w \in Mutated(op[p]) :
                        KeysOf(w) \cap DOMAIN cache' = {}
            /\ (MutationReturns(p) /\ result'[p].status # "ok") =>
                  cache' = cache
       /\ cache' # cache =>
            \/ \E p \in Procs : CacheChangedBy(p)
            \/ \E k \in DOMAIN cache : cache' = Del(cache, {k})]_vars

\* A Deposit or Transfer has committed and is about to invalidate, the
\* cache holding the wallet's row and a page of its history, and another
\* call has failed and left them there.
C23_CommittedBeforeInvalidation ==
    \E p \in Procs, q \in Procs :
        /\ pc[p] \in {"d_inval", "t_inval"}
        /\ HasCommitted(p)
        /\ \E k \in KeysOf(1) : Len(k) = 2
        /\ \E k \in KeysOf(1) : Len(k) = 5
        /\ result[q].status = "StorageFailure"
        /\ result[q].call \in {"deposit", "transfer"}

\* p's Deposit or Transfer ends in this step with entries of a wallet it
\* mutated still in the cache: a deletion failed.
DeletionFailed(p) ==
    /\ pc[p] \in {"d_inval", "t_inval"}
    /\ pc'[p] # pc[p]
    /\ \E w \in Mutated(op[p]) : KeysOf(w) \cap DOMAIN cache' # {}

(* C24: a failure of any cache deletion after commit never rolls back the
   committed mutation and never turns into an error for the caller: Deposit
   and Transfer still return the record, and the committed balances and
   records stay in storage. *)
C24_InvalidationFailureNotFatal ==
    [][\A p \in Procs :
          DeletionFailed(p) =>
              /\ result'[p].status = "ok"
              /\ result'[p].tx = <<buf[p].recs[1]>>
              /\ HasCommitted(p)
              /\ UNCHANGED <<wallets, transactions, applied>>]_vars

\* A Deposit has returned its record, the record is stored, and the cache
\* still holds the row and the page it had before.
C24_ReturnedWithEntriesLeft ==
    \E p \in Procs :
        /\ result[p].call = "deposit"
        /\ result[p].status = "ok"
        /\ \E i \in 1..Len(transactions) : transactions[i] = result[p].tx[1]
        /\ cache = LeftInCache

\* p's GetWallet or GetTransactions returns to its caller in this step.
ReadReturns(p) ==
    \/ pc[p] \in {"g_cache", "g_db", "g_set"} /\ pc'[p] \in {"h_check", "idle"}
    \/ pc[p] \in {"gt_cache", "gt_db", "gt_set"} /\ pc'[p] = "idle"

(* C26: when the cache is unavailable (every get, set and delete fails),
   GetWallet and GetTransactions still succeed and return the values held
   in storage; a cache fault is treated as a miss and never fails the
   call. *)
C26_CacheFaultIsMiss ==
    [][\A p \in Procs :
          LET w == Target(op[p]) IN
          /\ pc[p] = "g_cache" /\ pc'[p] # pc[p] => pc'[p] = "g_db"
          /\ pc[p] = "gt_cache" /\ pc'[p] # pc[p] => pc'[p] = "gt_db"
          /\ pc[p] = "g_db" /\ pc'[p] # pc[p] =>
                pc'[p] = "g_set" /\ rd'[p][w] = wallets[w]
          /\ pc[p] = "gt_db" /\ pc'[p] # pc[p] =>
                /\ pc'[p] = "gt_set"
                /\ rd'[p][0] \in
                      GetByWalletID(op[p].walletID, op[p].limit, op[p].offset)
          /\ ReadReturns(p) =>
                IF pc[p] = "g_set"
                THEN pc'[p] = "h_check" /\ rd'[p][w] = rd[p][w]
                ELSE /\ pc[p] = "gt_set"
                     /\ result'[p].status = "ok"
                     /\ result'[p].tx = rd[p][0]
          /\ (pc[p] = "h_check" /\ pc'[p] = "idle"
                /\ op[p].name = "get_wallet") =>
                /\ result'[p].status = "ok"
                /\ result'[p].tx = <<rd[p][w]>>]_vars

\* GetWallet has returned wallet 1's stored row and GetTransactions its
\* stored records, neither of them what the cache holds.
C26_ServedFromStorage ==
    \E p \in Procs, q \in Procs :
        /\ result[p].call = "get_wallet"
        /\ result[p].status = "ok"
        /\ result[p].tx = <<wallets[1]>>
        /\ result[p].tx # Decoded(cache[WalletKey(1)].value)
        /\ result[q].call = "get_transactions"
        /\ result[q].status = "ok"
        /\ Len(result[q].tx) > 0
        /\ Decoded(cache[TransactionsKey(1, 10, 0)].value) = <<>>

\* The cache holds, under k, a value that decodes.
ValidHit(k) == k \in DOMAIN cache /\ Len(cache[k].value) = 1

(* C25: the read path of GetWallet.  On a valid cache hit it returns the
   cached value without reading storage; on a miss or an entry that cannot
   be decoded it reads storage, stores the result in the cache under the
   wallet key with a time to live of 5 minutes, and returns it. *)
C25_GetWalletReadPath ==
    [][\A p \in Procs :
          LET w == Target(op[p])
              k == <<"wallet", w>>
          IN  /\ (pc[p] = "g_cache" /\ pc'[p] # pc[p]) =>
                    IF ValidHit(k)
                    THEN /\ pc'[p] = "h_check"
                         /\ rd'[p][w] = cache[k].value[1]
                         /\ cache' = cache
                    ELSE pc'[p] = "g_db" /\ cache' = cache
              /\ (pc[p] = "g_db" /\ pc'[p] = "g_set") =>
                    rd'[p][w] = wallets[w]
              /\ (pc[p] = "g_set" /\ pc'[p] # pc[p]) =>
                    /\ pc'[p] = "h_check"
                    /\ rd'[p][w] = rd[p][w]
                    /\ k \in DOMAIN cache'
                    /\ cache'[k].value = <<rd[p][w]>>
                    /\ cache'[k].ttl = 5 * 60
                    /\ \A j \in DOMAIN cache' \ {k} :
                          j \in DOMAIN cache /\ cache'[j] = cache[j]]_vars

\* One GetWallet is returning from a valid hit while another, which found an
\* entry that does not decode or none, has read storage and stored the row.
C25_HitAndReadThrough ==
    \E p \in Procs, q \in Procs :
        /\ pc[p] = "g_cache"
        /\ ValidHit(WalletKey(1))
        /\ pc[q] = "h_check"
        /\ cache[WalletKey(1)].value = <<rd[q][1]>>
        /\ \E i \in 1..Len(transactions) : transactions[i].uuid[1] > 0

\* The cached pages of wallet w's history, whatever their window.
PagesOf(w) ==
    {k \in DOMAIN cache :
        Len(k) = 5 /\ k[1] = "wallet" /\ k[2] = w /\ k[3] = "transactions"}

\* p's Deposit or Transfer returns its record in this step.
MutationReturnsRecord(p) ==
    /\ pc[p] \in {"d_inval", "t_inval"}
    /\ pc'[p] = "idle"
    /\ result'[p].status = "ok"

(* C27: the invalidation of a wallet's history cache removes every cached
   pagination window (every limit/offset pair) of that wallet that exists
   when the mutation commits: when a successful Deposit or Transfer returns,
   no history page that was cached for an affected wallet remains in the
   cache. *)
C27_EveryWindowInvalidated ==
    [][\A p \in Procs :
          MutationReturnsRecord(p) =>
              \A w \in Mutated(op[p]) :
                  \A k \in PagesOf(w) : k \notin DOMAIN cache']_vars

\* A Deposit or Transfer has committed while two windows of wallet 1's
\* history are cached.
C27_TwoWindowsCached ==
    \E p \in Procs :
        /\ pc[p] \in {"d_inval", "t_inval"}
        /\ HasCommitted(p)
        /\ Cardinality(PagesOf(1)) >= 2

(* C28: each distinct pagination window is cached independently: a history
   page cached for (wallet_id, limit, offset) is returned only to a
   GetTransactions call with the same three values, never to a call with
   a different wallet, limit or offset. *)
C28_WindowsIndependent ==
    [][\A p \in Procs :
          (pc[p] = "gt_cache" /\ pc'[p] = "idle") =>
              \E k \in PagesOf(op[p].walletID) :
                  /\ cache[k].args =
                        <<op[p].walletID, op[p].limit, op[p].offset>>
                  /\ result'[p].tx = cache[k].value[1]]_vars

\* A call for one window finds its page in the cache while the cache holds
\* another window of the same wallet with a different page.
C28_HitBesideOtherWindow ==
    \E p \in Procs :
        /\ pc[p] = "gt_cache"
        /\ \E k \in PagesOf(1), j \in PagesOf(1) :
              /\ k # j
              /\ cache[k].args = <<op[p].walletID, op[p].limit, op[p].offset>>
              /\ cache[j].value # cache[k].value

\* The position of record x in the page q (0: not there).
PositionIn(q, x) ==
    IF \E i \in 1..Len(q) : q[i] = x
    THEN CHOOSE i \in 1..Len(q) : q[i] = x
    ELSE 0

\* The pages q and r list the records they share in one order.
SameOrder(q, r) ==
    \A i \in 1..Len(q), j \in 1..Len(q) :
        (i < j /\ PositionIn(r, q[i]) > 0 /\ PositionIn(r, q[j]) > 0) =>
            PositionIn(r, q[i]) < PositionIn(r, q[j])

(* C29: GetTransactions returns a wallet's records descending by creation
   time, and two records of the same wallet with equal creation time are
   returned in a fixed order determined by insertion order, the same on
   every call: two calls that read the same window from storage list the
   records they share in the same order. *)
C29_HistoryOrderFixed ==
    \A p \in Procs, q \in Procs :
        (pc[p] = "gt_set" /\ pc[q] = "gt_set") =>
            /\ \A i \in 1..Len(rd[p][0]), j \in 1..Len(rd[p][0]) :
                  i < j => rd[p][0][i].created_at >= rd[p][0][j].created_at
            /\ PageKey(op[p]) = PageKey(op[q]) => SameOrder(rd[p][0], rd[q][0])

\* The entries of the cache that represent account u.
AccountEntries(c, u) ==
    {k \in DOMAIN c : k[1] = "user" /\ k[Len(k)] = u}

(* C30: after CreateWallet succeeds for an account, no cached representation
   of that account written before the call (the entries the authentication
   service stores for that user) remains in the cache. *)
C30_AccountCacheInvalidated ==
    [][\A p \in Procs :
          (pc[p] = "c_inval" /\ pc'[p] = "idle"
             /\ result'[p].status = "ok") =>
              AccountEntries(cache', op[p].userID) = {}]_vars

\* C31: self-healing. If from some point on no Deposit or Transfer is
\* applied to a wallet, then with keys expiring when their time to live runs
\* out every GetWallet on that wallet eventually returns the balance held in
\* storage, and keeps returning it: from some point on, every row GetWallet
\* returns carries the stored balance.
C31_SelfHealing ==
    <>[][\A p \in Procs :
            GetWalletReturned(p) =>
                rd'[p][Target(op[p])].balance
                    = wallets[Target(op[p])].balance]_vars

\* The case to heal: every mutation has returned, no call is running, and
\* the cache holds for wallet 1 a row whose balance is not the stored one.
C31_StaleEntryAtRest ==
    /\ calls = MaxCalls
    /\ Quiet
    /\ WalletKey(1) \in DOMAIN cache
    /\ Decodes(cache[WalletKey(1)].value)
    /\ Decoded(cache[WalletKey(1)].value).balance # wallets[1].balance

\* The positions at which a call's transaction holds a row lock.
HoldingPcs ==
    {"d_update", "d_create", "d_commit", "t_lock_to", "t_update_from",
     "t_update_to", "t_create_from", "t_create_to", "t_commit"}

\* Every locked row is locked by a call inside its storage transaction and
\* on one of the rows that call names.
LocksScoped ==
    \A w \in WalletIDs :
        lock[w] # NoProc =>
            /\ pc[lock[w]] \in HoldingPcs
            /\ w \in {op[lock[w]].walletID, op[lock[w]].fromWalletID,
                      op[lock[w]].toWalletID}

\* C32: row locks are scoped to the enclosing storage transaction: on every
\* exit path of Deposit and Transfer (commit, business-rule error, storage
\* fault) the call's row locks are released, so a locked row is always held
\* by a call still inside its transaction (no call in flight: no row
\* locked), and a call that waits for a row does not wait for ever.
C32_LocksEndWithTransaction ==
    /\ []LocksScoped
    /\ \A p \in Procs : WaitsForLock(p) ~> ~WaitsForLock(p)

\* A call holds the lock of row 1 after an earlier Transfer, which had
\* locked row 1, committed and returned.
C32_LockedAgainAfterRelease ==
    \E p \in Procs, q \in Procs :
        /\ p # q
        /\ lock[1] = p
        /\ pc[q] = "idle"
        /\ result[q] = For("transfer", result[q])
        /\ result[q].status = "ok"
        /\ \E c \in 1..MaxCalls :
              c # callId[p] /\ <<c, "transfer", 1>> \in applied

\* C33: the conversion at the engine boundary is exact for amounts that are
\* whole numbers of minor units: for every n in the bounded range
\* DollarsToMinorUnits(MinorUnitsToDollars(n)) = n, so that a Deposit of the
\* amount MinorUnitsToDollars(n) works with amountInMinorUnits = n and is
\* recorded as exactly n minor units.
C33_RoundTripExact ==
    \A n \in 1..MaxMinorUnits :
        given.amount = MinorUnitsToDollars(n) =>
            /\ \A p \in DepositProcs : callId[p] # 0 => amt[p] = Cents(n)
            /\ \A i \in 1..Len(transactions) :
                  transactions[i].amount = Cents(n)

\* A Deposit or Transfer that changes wallet w is running.
MutationRunning(w) ==
    \E p \in Procs : pc[p] \in MutationPcs /\ w \in Mutated(op[p])

\* A GetWallet on wallet w is running.
GetWalletRunning(w) ==
    \E p \in Procs :
        pc[p] \in {"g_cache", "g_db", "g_set"} /\ Target(op[p]) = w

\* The cache holds for wallet w a row whose balance is not the stored one.
StaleEntry(w) ==
    /\ WalletKey(w) \in DOMAIN cache
    /\ Decodes(cache[WalletKey(w)].value)
    /\ Decoded(cache[WalletKey(w)].value).balance # wallets[w].balance

\* C34: no stale wallet entry survives a mutation: once the Deposits and
\* Transfers on wallet W have returned and every GetWallet(W) that was in
\* flight has returned, the cache entry for W is absent or holds W's stored
\* balance (a GetWallet that read storage before the commit does not
\* repopulate the cache after the invalidation).
C34_NoStaleWalletEntry ==
    \A w \in DOMAIN wallets :
        (~MutationRunning(w) /\ ~GetWalletRunning(w)) => ~StaleEntry(w)

\* A GetTransactions on wallet w is running.
GetTransactionsRunning(w) ==
    \E p \in Procs :
        pc[p] \in {"gt_cache", "gt_db", "gt_set"} /\ op[p].walletID = w

\* The cached page under key k is not a page storage returns for k's window.
StalePage(k) ==
    /\ Decodes(cache[k].value)
    /\ Decoded(cache[k].value) \notin GetByWalletID(k[2], k[4], k[5])

\* C35: no stale history page survives a mutation: once the Deposits and
\* Transfers that affect wallet W have returned and every GetTransactions
\* on W that was in flight has returned, every cached page of W is what
\* storage returns for its window, pages stored by a concurrent
\* GetTransactions included.
C35_NoStalePage ==
    \A w \in DOMAIN wallets :
        (~MutationRunning(w) /\ ~GetTransactionsRunning(w)) =>
            \A k \in PagesOf(w) : ~StalePage(k)

\* The sum, as a number, of the balances of the wallets S.
RECURSIVE SumBalances(_)
SumBalances(S) ==
    IF S = {} THEN Zero64
    ELSE LET w == CHOOSE x \in S : TRUE
         IN  MathAdd(wallets[w].balance, SumBalances(S \ {w}))

TotalBalance == SumBalances(DOMAIN wallets)

\* The sum, as a number, of the amounts of the first n records that are
\* deposit records.
RECURSIVE SumDeposits(_)
SumDeposits(n) ==
    IF n = 0 THEN Zero64
    ELSE MathAdd(IF transactions[n].type = TransactionTypeDeposit
                 THEN transactions[n].amount ELSE Zero64,
                 SumDeposits(n - 1))

TotalDeposited == SumDeposits(Len(transactions))

\* p's Transfer takes a step (to its commit, or to its return).
TransferSteps(p) ==
    /\ pc[p] \in {"t_lock_from", "t_lock_to", "t_update_from", "t_update_to",
                  "t_create_from", "t_create_to", "t_commit", "t_inval"}
    /\ pc'[p] # pc[p]

\* C36: conservation of money: in every committed state the sum of all
\* wallet balances equals the sum of the amounts of all committed deposit
\* records, and a Transfer, successful or failed, never changes the sum of
\* all balances.
C36_Conservation ==
    /\ [](TotalBalance = TotalDeposited)
    /\ [][\A p \in Procs :
            TransferSteps(p) => TotalBalance' = TotalBalance]_vars

\* C37: every record written by a successful Deposit has an amount of at
\* least one minor unit, and every record of the pair written by a
\* successful Transfer has an amount of magnitude at least one minor unit:
\* a strictly positive amount that converts (by truncation) to zero minor
\* units is rejected, not recorded as a mutation of zero.
C37_NoZeroAmountRecord ==
    \A i \in 1..Len(transactions) :
        LET r == transactions[i] IN
        /\ r.type = TransactionTypeDeposit => Lt64(Zero64, r.amount)
        /\ r.type = TransactionTypeTransfer => r.amount # Zero64

InsufficientFunds == Err("InsufficientFunds", "insufficient balance")

\* The record of call number id on wallet w.
RecordOf(id, k, w, type, a, before, after, f, t) ==
    [wallet_id |-> w, type |-> type, amount |-> a, balance_before |-> before,
     balance_after |-> after, from_wallet_id |-> f, to_wallet_id |-> t,
     uuid |-> <<id, k>>, created_at |-> 0]

\* What the call c, the call number id, makes of the store st of balances
\* and records, and what it returns, by storage and the call alone.
ByStorageAlone(st, c, id) ==
    LET a == CHOOSE x \in DollarsToMinorUnits(c.amount) : TRUE
        f == c.fromWalletID
        t == c.toWalletID
        w == c.walletID
        Fails(e) == [st EXCEPT !.outcome = For(c.name, e)]
    IN
    IF NonPositive(c.amount) THEN Fails(InvalidAmount)
    ELSE IF c.name = "deposit"
    THEN IF w \notin DOMAIN st.wallets THEN Fails(DepositNotFound)
         ELSE LET old == st.wallets[w].balance
                  rec == RecordOf(id, 1, w, TransactionTypeDeposit, a, old,
                                  Add64(old, a), 0, 0)
              IN  [wallets |->
                      [st.wallets EXCEPT ![w].balance = Add64(old, a)],
                   transactions |-> Append(st.transactions, rec),
                   outcome |-> For(c.name, Ok(rec))]
    ELSE IF f = t THEN Fails(InvalidTransfer)
    ELSE IF f \notin DOMAIN st.wallets THEN Fails(SourceNotFound)
    ELSE IF t \notin DOMAIN st.wallets THEN Fails(DestinationNotFound)
    ELSE IF Lt64(st.wallets[f].balance, a) THEN Fails(InsufficientFunds)
    ELSE LET fromOld == st.wallets[f].balance
             toOld == st.wallets[t].balance
             fromRec == RecordOf(id, 1, f, TransactionTypeTransfer, Neg64(a),
                                 fromOld, Sub64(fromOld, a), f, t)
             toRec == RecordOf(id, 2, t, TransactionTypeTransfer, a, toOld,
                               Add64(toOld, a), f, t)
         IN  [wallets |->
                 [st.wallets EXCEPT ![f].balance = Sub64(fromOld, a),
                                    ![t].balance = Add64(toOld, a)],
              transactions |-> st.transactions \o <<fromRec, toRec>>,
              outcome |-> For(c.name, Ok(fromRec))]

\* The store and the last outcome after the first n of the given calls.
RECURSIVE AfterCalls(_)
AfterCalls(n) ==
    IF n = 0
    THEN [wallets |-> (1 :> [user_id |-> 1, balance |-> Cents(2)])
                      @@ (2 :> [user_id |-> 2, balance |-> Zero64]),
          transactions |-> SeedRecords(Cents(2), Zero64),
          outcome |-> NoResult]
    ELSE ByStorageAlone(AfterCalls(n - 1), given[n], n)

\* C38: the cache is never the source of truth for a mutation: runs that
\* start with equal storage and apply the same sequence of Deposit and
\* Transfer calls end with identical balances, records and returned
\* outcomes whatever the cache holds (stale or corrupt entries included):
\* after each call they are what storage and the calls alone determine.
C38_CacheNeverSourceOfTruth ==
    pc["p1"] = "idle" =>
        /\ wallets = AfterCalls(calls).wallets
        /\ transactions = AfterCalls(calls).transactions
        /\ result["p1"] = AfterCalls(calls).outcome

\* All the calls were made; the last, a Transfer out of the empty wallet 2,
\* failed on the balance while the cache held a row of wallet 2 with
\* 0.09 dollars on it.
C38_RefusedDespiteCachedBalance ==
    /\ calls = MaxCalls
    /\ pc["p1"] = "idle"
    /\ result["p1"] = For("transfer", InsufficientFunds)
    /\ WalletKey(2) \in DOMAIN cache
    /\ Decoded(cache[WalletKey(2)].value).balance = Cents(9)
    /\ Len(transactions) > 1

\* p's call takes a step.
Acts(p) == pc'[p] # pc[p]

\* p's step is one of its Deposit or Transfer on wallet w.
MutationStepOn(p, w) ==
    Acts(p) /\ pc[p] \in MutationPcs /\ w \in Mutated(op[p])

(* C39: frame of mutations: Deposit on wallet W changes the balance of W
   only and adds records for W only; Transfer from F to T changes only the
   balances of F and T and adds records only for F and T; no operation
   changes a wallet's owner or removes a wallet, and GetWallet and
   GetTransactions change nothing in storage. *)
C39_MutationFrame ==
    [][/\ \A w \in DOMAIN wallets :
             /\ w \in DOMAIN wallets'
             /\ wallets'[w].user_id = wallets[w].user_id
             /\ wallets'[w].balance # wallets[w].balance =>
                   \E p \in Procs : MutationStepOn(p, w)
       /\ IsPrefix(transactions, transactions')
       /\ \A i \in (Len(transactions) + 1)..Len(transactions') :
             \E p \in Procs : MutationStepOn(p, transactions'[i].wallet_id)
       /\ \A p \in Procs :
             (Acts(p) /\ pc[p] \in {"g_cache", "g_db", "g_set", "h_check",
                                    "gt_cache", "gt_db", "gt_set"}) =>
                 UNCHANGED <<wallets, transactions>>]_vars

\* A Deposit on wallet 1 and a Transfer from wallet 1 to wallet 2 have
\* committed, and a GetWallet or GetTransactions is about to return beside
\* them.
C39_MutationsAndReadsRan ==
    /\ \E c \in 1..MaxRequests : <<c, "deposit", 1>> \in applied
    /\ \E c \in 1..MaxRequests : <<c, "transfer", 2>> \in applied
    /\ \E p \in Procs : pc[p] \in {"g_set", "gt_set"}

\* The keys of the cache that belong to the wallets the call c changes.
KeysOfMutated(c) == UNION {KeysOf(w) : w \in Mutated(c)}

(* C40: frame of invalidation: the cache deletions performed by a Deposit
   or Transfer remove only the wallet entry and history pages of the
   wallets that call mutated; the cached wallet entries and history pages
   of every other wallet, including a wallet whose identifier has the
   affected identifier as a decimal prefix (1 and 10), are left unchanged,
   and nothing is added. *)
C40_InvalidationFrame ==
    [][\A p \in Procs :
          (pc[p] \in {"d_inval", "t_inval"} /\ Acts(p)) =>
              /\ DOMAIN cache' \subseteq DOMAIN cache
              /\ \A k \in DOMAIN cache \ KeysOfMutated(op[p]) :
                    k \in DOMAIN cache' /\ cache'[k] = cache[k]]_vars

\* A Deposit on wallet 1 has returned its record: the row and the pages of
\* wallet 1 are gone from the cache, those of wallets 2 and 10 are there.
C40_OnlyWalletOneSwept ==
    /\ \E p \in Procs : result[p].status = "ok" /\ result[p].call = "deposit"
    /\ KeysOf(1) = {}
    /\ Cardinality(KeysOf(2)) = 2
    /\ Cardinality(KeysOf(10)) = 3

====
